---- MODULE Spec2Model ----
(***************************************************************************)
(* Verification model of lab02/text-02-attention.ipynb: the scaled         *)
(* dot-product attention unit (numeric), and the Transformer built on it;  *)
(* of lab05 (int8 quantization, LoRA on BERT) and of the text generation   *)
(* methods of lab06/text-06-prompt-engineering-rag.ipynb.                  *)
(*                                                                         *)
(* Numbers.  Tensor entries are integers.  A scaled score is the exact     *)
(* rational num/den with den = sqrt(d_k); d_k ranges over perfect squares  *)
(* so the square root is exact.  exp is modelled by the strictly           *)
(* increasing, strictly positive homomorphism x |-> 4^x, which is an       *)
(* integer power of two on every score the model produces; a softmax       *)
(* weight is the exact rational <<E, S>> = E/S.                            *)
(***************************************************************************)
EXTENDS Integers, Sequences, FiniteSets, TLC

(* ---------------------------- bounds ----------------------------------- *)
MaxBatch == 2
MaxSeq == 2
\* feature widths of the tensors and values of d_k (perfect squares)
FeatDims == {1, 4}
\* seeds of the input patterns and of torch.randn
Seeds == {0, 1}
MaxLayers == 2
MaxSteps == 1
\* hidden widths of the Transformer
DModels == {2, 4}
\* max_len of the positional table (5000 is the default)
MaxLens == {1, 5000}
\* the number of input features of the notebook
InputSize == 1
\* the dataset: sequence lengths 1..MaxSeqLen, up to MaxSamples samples
MaxSeqLen == 8
MaxSamples == 2
\* seeds of the noise added to the jumps
NoiseSeeds == {0, 1}

\* lab06, text generation: max_length ranges over 0..MaxLength
MaxLength == 2

\* lab05, quantization: W is n_rows x n_cols and x has n_cols elements,
\* n_rows in 1..MaxRows, n_cols in 1..MaxCols
MaxRows == 1
MaxCols == 3

(* ------------------------- integer helpers ----------------------------- *)
Max(a, b) == IF a >= b THEN a ELSE b

RECURSIVE Pow2(_)
Pow2(n) == IF n <= 0 THEN 1 ELSE 2 * Pow2(n - 1)

RECURSIVE SumSeq(_)
SumSeq(s) == IF s = <<>> THEN 0 ELSE Head(s) + SumSeq(Tail(s))

RECURSIVE MinSeq(_)
MinSeq(s) == IF Len(s) = 1 THEN s[1]
             ELSE LET m == MinSeq(Tail(s)) IN IF s[1] <= m THEN s[1] ELSE m

\* torch.sqrt on a perfect square
Sqrt(n) == CHOOSE r \in 0..n : r * r = n

(* ------------------------- tensors (3-D) ------------------------------- *)
\* a tensor is t[b][i][c]; the empty sequence marks a failed operation
NoTensor == <<>>
Size0(t) == Len(t)
Size1(t) == Len(t[1])
Size2(t) == Len(t[1][1])
Shape(t) == IF t = NoTensor THEN <<>> ELSE <<Size0(t), Size1(t), Size2(t)>>

\* index of a broadcast axis: an axis of size 1 is read at 1 for every index
Bix(n, i) == IF n = 1 THEN 1 ELSE i
\* two axis sizes broadcast together iff they are equal or one of them is 1
Compatible(m, n) == m = n \/ m = 1 \/ n = 1

\* mutant: the key is used as it is, not transposed
transpose_omitted(t) == t

\* x.transpose(-2, -1)
transpose(t) ==
    [b \in 1..Size0(t) |-> [c \in 1..Size2(t) |-> [i \in 1..Size1(t) |-> t[b][i][c]]]]

\* torch.matmul on 3-D integer tensors: batch axis broadcast, inner sizes equal
matmul(a, b) ==
    IF a = NoTensor \/ b = NoTensor THEN NoTensor
    ELSE IF Size2(a) # Size1(b) \/ ~Compatible(Size0(a), Size0(b)) THEN NoTensor
    ELSE [bb \in 1..Max(Size0(a), Size0(b)) |->
           [i \in 1..Size1(a) |->
             [j \in 1..Size2(b) |->
               SumSeq([c \in 1..Size2(a) |->
                   a[Bix(Size0(a), bb)][i][c] * b[Bix(Size0(b), bb)][c][j]])]]]

\* a + b with broadcasting on every axis
BroadcastAdd(a, b) ==
    IF a = NoTensor \/ b = NoTensor THEN NoTensor
    ELSE IF ~(Compatible(Size0(a), Size0(b)) /\ Compatible(Size1(a), Size1(b))
              /\ Compatible(Size2(a), Size2(b))) THEN NoTensor
    ELSE [bb \in 1..Max(Size0(a), Size0(b)) |->
           [i \in 1..Max(Size1(a), Size1(b)) |->
             [j \in 1..Max(Size2(a), Size2(b)) |->
                 a[Bix(Size0(a), bb)][Bix(Size1(a), i)][Bix(Size2(a), j)]
               + b[Bix(Size0(b), bb)][Bix(Size1(b), i)][Bix(Size2(b), j)]]]]

\* t * k for an integer k
Scale(t, k) ==
    [b \in 1..Size0(t) |-> [i \in 1..Size1(t) |-> [j \in 1..Size2(t) |-> t[b][i][j] * k]]]

(* ------------------- ScaledDotProductAttention ------------------------- *)
\* torch.randn(1, seq_len, seq_len): an arbitrary real tensor, here one of a
\* family of integer tensors (seed 0 is constant, the others are not)
randn(seq_len, seed) ==
    << [i \in 1..seq_len |-> [j \in 1..seq_len |-> ((seed * (i + 2 * j + 1)) % 3) - 1]] >>

\* ScaledDotProductAttention.__init__
SDPA_init(seq_len, d_k, other_positional_encodings_present, seed) ==
    [ d_k |-> d_k,
      seq_len |-> seq_len,
      other_positional_encodings_present |-> other_positional_encodings_present,
      rel_layer |-> randn(seq_len, seed) ]

\* exponent of 2 that stands for exp(num/den): 4^(num/den) = 2^(2*num/den)
ExpArg(num, den) == (2 * num) \div den

\* mutant: softmax over dim=-2, the query axis
softmax_query_axis(num, den) ==
    [b \in 1..Size0(num) |->
      [i \in 1..Size1(num) |->
        [j \in 1..Size2(num) |->
          LET col == [h \in 1..Size1(num) |-> ExpArg(num[b][h][j], den)]
              lo  == MinSeq(col)
              e   == [h \in 1..Size1(num) |-> Pow2(col[h] - lo)]
          IN <<e[i], SumSeq(e)>>]]]

\* torch.softmax(scores, dim=-1) on the rational scores num/den: entry <<E, S>>
softmax(num, den) ==
    [b \in 1..Size0(num) |->
      [i \in 1..Size1(num) |->
        LET row == [j \in 1..Size2(num) |-> ExpArg(num[b][i][j], den)]
            lo  == MinSeq(row)
            e   == [j \in 1..Size2(num) |-> Pow2(row[j] - lo)]
            s   == SumSeq(e)
        IN [j \in 1..Size2(num) |-> <<e[j], s>>]]]

\* torch.matmul(attention_weights, value): entry <<sum_j E_ij * v_jc, S_i>>
matmulW(w, v) ==
    IF Size2(w) # Size1(v) \/ ~Compatible(Size0(w), Size0(v)) THEN NoTensor
    ELSE [bb \in 1..Max(Size0(w), Size0(v)) |->
           [i \in 1..Size1(w) |->
             [c \in 1..Size2(v) |->
               << SumSeq([j \in 1..Size2(w) |->
                      w[Bix(Size0(w), bb)][i][j][1] * v[Bix(Size0(v), bb)][j][c]]),
                  w[Bix(Size0(w), bb)][i][1][2] >>]]]

\* mutant: the bias is added whatever the flag says
AddsBias_always(self) == TRUE

\* mutant: the bias is never added
AddsBias_never(self) == FALSE

\* if not self.other_positional_encodings_present
AddsBias(self) == ~self.other_positional_encodings_present

Raised(kind) == [raised |-> kind, output |-> NoTensor, weights |-> NoTensor]
Returned(output, weights) == [raised |-> "", output |-> output, weights |-> weights]

\* ScaledDotProductAttention.forward(query, key, value)
SDPA_forward(self, query, key, value) ==
    LET raw == matmul(query, transpose(key))
        den == Sqrt(self.d_k)
    IN IF raw = NoTensor THEN Raised("RuntimeError")
       ELSE LET scores ==
                  IF AddsBias(self)
                  THEN BroadcastAdd(raw, Scale(self.rel_layer, den))
                  ELSE raw
            IN IF scores = NoTensor THEN Raised("RuntimeError")
               ELSE LET attention_weights == softmax(scores, den)
                        output == matmulW(attention_weights, value)
                    IN IF output = NoTensor THEN Raised("RuntimeError")
                       ELSE Returned(output, attention_weights)

\* unit(*a): forward takes exactly (query, key, value); any further positional
\* argument (a mask) is a TypeError raised before the body runs
NoMask == <<>>

\* mutant: a fourth argument is accepted and ignored
SDPA_call_mask_ignored(self, query, key, value, mask) ==
    SDPA_forward(self, query, key, value)

SDPA_call(self, query, key, value, mask) ==
    IF mask # NoMask THEN Raised("TypeError")
    ELSE SDPA_forward(self, query, key, value)

(* ------------------------------ inputs --------------------------------- *)
\* an input tensor of shape (B, L, D): entries in {-1, 0, 1}
Pattern(B, L, D, seed) ==
    [b \in 1..B |-> [i \in 1..L |-> [c \in 1..D |-> ((seed + 2 * b + i * c + c) % 3) - 1]]]

\* torch.ones(B, L, D)
Ones(B, L, D) == [b \in 1..B |-> [i \in 1..L |-> [c \in 1..D |-> 1]]]

\* the shape of the documented example call: (batch, seq_len, d_k)
ShapeCase == <<2, 10, 16>>

\* an additive mask of shape (1, L, L) that masks the last key position
MaskLast(L) ==
    << [i \in 1..L |-> [j \in 1..L |-> IF j = L THEN 1 ELSE 0]] >>

(* ===================== the Transformer (data flow) ===================== *)
(* Above the attention unit the computation runs through LayerNorm, the    *)
(* exponential of non-integers and sines, so the values are kept symbolic: *)
(* a tensor is its shape and, for each batch element, the term that        *)
(* computes it.  A term is [op, n, args]; two tensors are equal when the   *)
(* same operations were applied to the same operands in the same order.    *)

T(op, n, args) == [op |-> op, n |-> n, args |-> args]
Sym(shape, at) == [shape |-> shape, at |-> at]
\* the result of an operation that raised
NoSym == Sym(<<>>, <<>>)

\* a stored tensor (parameter, buffer or plain attribute) holding contents v
Stored(path, layer, v) == T(path, layer, <<T("value", v, <<>>)>>)

\* the contents of an integer tensor of shape (1, S, S) as one number
RECURSIVE Digits(_)
Digits(s) == IF s = <<>> THEN 0 ELSE (Head(s) + 1) + 3 * Digits(Tail(s))
RECURSIVE Flatten(_)
Flatten(rows) == IF rows = <<>> THEN <<>> ELSE Head(rows) \o Flatten(Tail(rows))
TensorId(t) == Digits(Flatten(t[1]))

\* nn.Linear(in_features, out_features)
Linear_init(in_features, out_features) ==
    [in_features |-> in_features, out_features |-> out_features]

\* nn.Linear.forward: the last axis must be in_features wide
Linear(self, path, layer, v, x) ==
    IF x = NoSym THEN NoSym
    ELSE IF x.shape[Len(x.shape)] # self.in_features THEN NoSym
    ELSE Sym(SubSeq(x.shape, 1, Len(x.shape) - 1) \o <<self.out_features>>,
             [b \in 1..x.shape[1] |->
                T("linear", 0, <<Stored(path \o ".weight", layer, v[[layer |-> layer, path |-> path \o ".weight"]]),
                                 Stored(path \o ".bias", layer, v[[layer |-> layer, path |-> path \o ".bias"]]),
                                 x.at[b]>>)])

\* nn.LayerNorm(d_model).forward: normalizes over the last axis
LayerNorm(d_model, path, layer, v, x) ==
    IF x = NoSym THEN NoSym
    ELSE IF x.shape[Len(x.shape)] # d_model THEN NoSym
    ELSE Sym(x.shape,
             [b \in 1..x.shape[1] |->
                T("layer_norm", 0, <<Stored(path \o ".weight", layer, v[[layer |-> layer, path |-> path \o ".weight"]]),
                                     Stored(path \o ".bias", layer, v[[layer |-> layer, path |-> path \o ".bias"]]),
                                     x.at[b]>>)])

\* nn.ReLU
ReLU(x) ==
    IF x = NoSym THEN NoSym
    ELSE Sym(x.shape, [b \in 1..x.shape[1] |-> T("relu", 0, <<x.at[b]>>)])

\* mutant: dropout draws its mask in evaluation mode too
Dropout_always(training, n, x) ==
    IF x = NoSym THEN NoSym
    ELSE Sym(x.shape, [b \in 1..x.shape[1] |-> T("dropout", n, <<x.at[b]>>)])

\* nn.Dropout.forward: the identity in evaluation mode, a random mask (the
\* n-th draw of the pass) in training mode
Dropout(training, n, x) ==
    IF x = NoSym THEN NoSym
    ELSE IF ~training THEN x
    ELSE Sym(x.shape, [b \in 1..x.shape[1] |-> T("dropout", n, <<x.at[b]>>)])

\* x + y on tensors of one shape
AddSym(x, y) ==
    IF x = NoSym \/ y = NoSym THEN NoSym
    ELSE IF x.shape # y.shape THEN NoSym
    ELSE Sym(x.shape, [b \in 1..x.shape[1] |-> T("add", 0, <<x.at[b], y.at[b]>>)])

(* ------ ScaledDotProductAttention.forward on symbolic operands --------- *)
\* the same statements as SDPA_forward, line by line, with the shapes computed
\* and the values kept as terms
SDPA_trace(self, layer, query, key, value) ==
    IF query = NoSym \/ key = NoSym \/ value = NoSym THEN [output |-> NoSym, weights |-> NoSym]
    ELSE IF query.shape[3] # key.shape[3] \/ ~Compatible(query.shape[1], key.shape[1])
    THEN [output |-> NoSym, weights |-> NoSym]
    ELSE
    LET B == Max(query.shape[1], key.shape[1])
        raw == [b \in 1..B |->
                  T("div", 0, << T("matmul", 0, << query.at[Bix(query.shape[1], b)],
                                                  T("transpose", 0, <<key.at[Bix(key.shape[1], b)]>>) >>),
                                 T("sqrt", self.d_k, <<>>) >>)]
        rawShape == <<B, query.shape[2], key.shape[2]>>
        biased == AddsBias(self)
        addable == /\ Compatible(rawShape[2], self.seq_len)
                   /\ Compatible(rawShape[3], self.seq_len)
        scoreShape == IF biased
                      THEN <<B, Max(rawShape[2], self.seq_len), Max(rawShape[3], self.seq_len)>>
                      ELSE rawShape
        scores == IF biased
                  THEN [b \in 1..B |->
                          T("add", 0, << raw[b],
                                Stored("attention.scaled_dot_attention.rel_layer", layer,
                                       TensorId(self.rel_layer)) >>)]
                  ELSE raw
        attention_weights == Sym(scoreShape, [b \in 1..B |-> T("softmax", 0 - 1, <<scores[b]>>)])
    IN IF biased /\ ~addable THEN [output |-> NoSym, weights |-> NoSym]
       ELSE IF scoreShape[3] # value.shape[2] \/ ~Compatible(B, value.shape[1])
       THEN [output |-> NoSym, weights |-> NoSym]
       ELSE [ output |-> Sym(<<Max(B, value.shape[1]), scoreShape[2], value.shape[3]>>,
                             [b \in 1..Max(B, value.shape[1]) |->
                                T("matmul", 0, << attention_weights.at[Bix(B, b)],
                                                  value.at[Bix(value.shape[1], b)] >>)]),
              weights |-> attention_weights ]

(* --------------------------- AttentionHead ----------------------------- *)
\* the linear layers of the head, left to the reader in this notebook (= ...):
\* each maps d_model to d_model
HeadLinear(d_model) == Linear_init(d_model, d_model)

\* AttentionHead.__init__
AttentionHead_init(d_model, seq_len, other_positional_encodings_present, seed) ==
    LET d_k == d_model
    IN [ d_k |-> d_k,
         seq_len |-> seq_len,
         query_layer |-> HeadLinear(d_model),
         key_layer |-> HeadLinear(d_model),
         value_layer |-> HeadLinear(d_model),
         scaled_dot_attention |->
             SDPA_init(seq_len, d_k, other_positional_encodings_present, seed),
         fc_out |-> HeadLinear(d_model) ]

\* AttentionHead.forward: the body is left to the reader in this notebook
AttentionHead_forward(self, layer, v, query, key, value) ==
    LET Q == Linear(self.query_layer, "attention.query_layer", layer, v, query)
        K == Linear(self.key_layer, "attention.key_layer", layer, v, key)
        V == Linear(self.value_layer, "attention.value_layer", layer, v, value)
        att == SDPA_trace(self.scaled_dot_attention, layer, Q, K, V)
    IN [ output |-> Linear(self.fc_out, "attention.fc_out", layer, v, att.output),
         weights |-> att.weights ]

(* ---------------------- TransformerEncoderBlock ------------------------ *)
\* self.norm2, left to the reader in this notebook: a second nn.LayerNorm(d_model)
Norm2_init(d_model) == d_model

\* TransformerEncoderBlock.__init__
TransformerEncoderBlock_init(d_model, dim_feedforward, seq_len, other_positional_encodings_present, seed) ==
    [ attention |-> AttentionHead_init(d_model, seq_len, other_positional_encodings_present, seed),
      norm1 |-> d_model,
      norm2 |-> Norm2_init(d_model),
      ffn0 |-> Linear_init(d_model, dim_feedforward),
      ffn2 |-> Linear_init(dim_feedforward, d_model) ]

\* mutant: the block hands back its normalized output in place of the weights
TransformerEncoderBlock_forward_no_weights(self, layer, v, training, x) ==
    LET att == AttentionHead_forward(self.attention, layer, v, x, x, x)
        x1 == LayerNorm(self.norm1, "norm1", layer, v,
                        AddSym(x, Dropout(training, 2 * layer - 1, att.output)))
    IN [ output |-> x1, attention_weights |-> x1 ]

\* mutant: the feed-forward sublayer and the second residual read the input
\* of the block, not the output of the first normalization
TransformerEncoderBlock_forward_ffn_on_input(self, layer, v, training, x) ==
    LET att == AttentionHead_forward(self.attention, layer, v, x, x, x)
        ffn_output == Linear(self.ffn2, "ffn.2", layer, v,
                             ReLU(Linear(self.ffn0, "ffn.0", layer, v, x)))
        output == LayerNorm(self.norm2, "norm2", layer, v,
                            AddSym(x, Dropout(training, 2 * layer, ffn_output)))
    IN IF output = NoSym THEN [output |-> NoSym, attention_weights |-> NoSym]
       ELSE [output |-> output, attention_weights |-> att.weights]

\* the two statements of TransformerEncoderBlock.forward left to the reader in
\* this notebook: ffn_output = self.ffn(x) and
\* output = self.norm2(x + self.dropout(ffn_output))
FeedForwardHalf(self, layer, v, training, x) ==
    LET ffn_output == Linear(self.ffn2, "ffn.2", layer, v,
                             ReLU(Linear(self.ffn0, "ffn.0", layer, v, x)))
    IN LayerNorm(self.norm2, "norm2", layer, v,
                 AddSym(x, Dropout(training, 2 * layer, ffn_output)))

\* TransformerEncoderBlock.forward
TransformerEncoderBlock_forward(self, layer, v, training, x) ==
    LET att == AttentionHead_forward(self.attention, layer, v, x, x, x)
        x1 == LayerNorm(self.norm1, "norm1", layer, v,
                        AddSym(x, Dropout(training, 2 * layer - 1, att.output)))
        output == FeedForwardHalf(self, layer, v, training, x1)
    IN IF output = NoSym THEN [output |-> NoSym, attention_weights |-> NoSym]
       ELSE [output |-> output, attention_weights |-> att.weights]

(* ------------------------- PositionalEncoding -------------------------- *)
\* PositionalEncoding.__init__: the buffer pe has shape (max_len, 1, d_model)
PositionalEncoding_init(d_model, max_len) == [d_model |-> d_model, max_len |-> max_len]

\* row r of the sine/cosine table
PeRow(r) == T("pe", r, <<>>)

\* PositionalEncoding.forward: x + self.pe[:x.size(0), :].repeat(1, x.shape[1], 1).
\* The slice keeps the first min(x.size(0), max_len) rows of pe, one per index
\* of axis 0 of x; repeat copies each along axis 1.  "rows" lists, for the
\* positions 0..x.shape[1]-1 of one batch element, the table row that is added.
PositionalEncoding_forward(self, x) ==
    IF x = NoSym THEN NoSym
    ELSE LET kept == IF x.shape[1] <= self.max_len THEN x.shape[1] ELSE self.max_len
         IN IF ~Compatible(kept, x.shape[1]) \/ x.shape[3] # self.d_model THEN NoSym
            ELSE Sym(x.shape,
                     [b \in 1..x.shape[1] |->
                        T("add", 0, << x.at[b],
                             T("rows", 0, [p \in 1..x.shape[2] |-> PeRow(Bix(kept, b) - 1)]) >>)])

(* ----------------------------- Transformer ----------------------------- *)
\* the tensors nn.Module registers, by kind: nn.Linear and nn.LayerNorm hold
\* Parameters, register_buffer a Buffer, and an attribute that is assigned a
\* plain torch.Tensor (rel_layer) is registered as neither
LinearAttrs(layer, path) ==
    { [layer |-> layer, path |-> path \o ".weight", kind |-> "Parameter"],
      [layer |-> layer, path |-> path \o ".bias", kind |-> "Parameter"] }

\* mutant: the blocks share one rel_layer, held by the first block
BlockAttrs_shared_bias(layer) ==
    LinearAttrs(layer, "attention.query_layer") \cup LinearAttrs(layer, "attention.key_layer")
    \cup LinearAttrs(layer, "attention.value_layer") \cup LinearAttrs(layer, "attention.fc_out")
    \cup { [layer |-> 1, path |-> "attention.scaled_dot_attention.rel_layer", kind |-> "Tensor"] }
    \cup LinearAttrs(layer, "norm1") \cup LinearAttrs(layer, "norm2")
    \cup LinearAttrs(layer, "ffn.0") \cup LinearAttrs(layer, "ffn.2")

BlockAttrs(layer) ==
    LinearAttrs(layer, "attention.query_layer") \cup LinearAttrs(layer, "attention.key_layer")
    \cup LinearAttrs(layer, "attention.value_layer") \cup LinearAttrs(layer, "attention.fc_out")
    \cup { [layer |-> layer, path |-> "attention.scaled_dot_attention.rel_layer", kind |-> "Tensor"] }
    \cup LinearAttrs(layer, "norm1") \cup LinearAttrs(layer, "norm2")
    \cup LinearAttrs(layer, "ffn.0") \cup LinearAttrs(layer, "ffn.2")

Attrs(positional_encoding, num_layers) ==
    LinearAttrs(0, "embedding") \cup LinearAttrs(0, "fc_out")
    \cup (IF positional_encoding # "None"
          THEN {[layer |-> 0, path |-> "pos_encoder.pe", kind |-> "Buffer"]} ELSE {})
    \cup UNION {BlockAttrs(i) : i \in 1..num_layers}

NameOf(a) == [layer |-> a.layer, path |-> a.path]

\* model.parameters(): the registered Parameters of the module and its children
Parameters(self) == {NameOf(a) : a \in {c \in self.attrs : c.kind = "Parameter"}}

\* mutant: every block is told that no other positional encoding is present
OtherEncodingsPresent_false(positional_encoding) == FALSE

\* False if positional_encoding is None else True
OtherEncodingsPresent(positional_encoding) ==
    IF positional_encoding = "None" THEN FALSE ELSE TRUE

\* Transformer.__init__; positional_encoding is "None" or the name of the class
\* to instantiate.  A new module is in training mode.  val is the contents of
\* each registered tensor (0 at initialization).
Transformer_init(input_size, d_model, dim_feedforward, num_layers, seq_len, positional_encoding, max_len, seed) ==
    [ positional_encoding |-> positional_encoding,
      embedding |-> Linear_init(input_size, d_model),
      pos_encoder |-> IF positional_encoding # "None"
                      THEN PositionalEncoding_init(d_model, max_len)
                      ELSE PositionalEncoding_init(0, 0),
      encoder_layers |->
          [i \in 1..num_layers |->
              TransformerEncoderBlock_init(d_model, dim_feedforward, seq_len,
                  OtherEncodingsPresent(positional_encoding), seed + i - 1)],
      fc_out |-> Linear_init(d_model, 1),
      training |-> TRUE,
      attrs |-> Attrs(positional_encoding, num_layers),
      val |-> [n \in {NameOf(a) : a \in
                        {c \in Attrs(positional_encoding, num_layers) : c.kind # "Tensor"}} |-> 0] ]

\* mutant: x[:, 0], the first index of axis 1
SelectFirst(x) ==
    IF x = NoSym THEN NoSym
    ELSE Sym(<<x.shape[1], x.shape[3]>>,
             [b \in 1..x.shape[1] |-> T("select", 0, <<x.at[b]>>)])

\* x[:, -1]: the last index of axis 1
SelectLast(x) ==
    IF x = NoSym THEN NoSym
    ELSE Sym(<<x.shape[1], x.shape[3]>>,
             [b \in 1..x.shape[1] |-> T("select", x.shape[2] - 1, <<x.at[b]>>)])

\* for layer in self.encoder_layers: x, attention_weights = layer(x); append
RECURSIVE EncoderLoop(_, _, _, _, _)
EncoderLoop(self, i, x, all_attention_weights, layer_inputs) ==
    IF i > Len(self.encoder_layers) \/ x = NoSym
    THEN [x |-> x, all_attention_weights |-> all_attention_weights, layer_inputs |-> layer_inputs]
    ELSE LET r == TransformerEncoderBlock_forward(self.encoder_layers[i], i, self.val,
                                                  self.training, x)
         IN EncoderLoop(self, i + 1, r.output,
                        Append(all_attention_weights, r.attention_weights),
                        Append(layer_inputs, x))

TRaised == [ raised |-> "RuntimeError", output |-> NoSym, all_attention_weights |-> <<>>,
             embedded |-> NoSym, encoded |-> NoSym, layer_inputs |-> <<>> ]

\* Transformer.forward(x).  Besides what it returns (output,
\* all_attention_weights) the record keeps the locals x after the embedding
\* (embedded), x after the positional step (encoded) and the x each layer is
\* given (layer_inputs).
Transformer_forward(self, x) ==
    LET embedded == Linear(self.embedding, "embedding", 0, self.val, x)
        encoded == IF self.positional_encoding # "None"
                   THEN PositionalEncoding_forward(self.pos_encoder, embedded)
                   ELSE embedded
        loop == EncoderLoop(self, 1, encoded, <<>>, <<>>)
        output == Linear(self.fc_out, "fc_out", 0, self.val, SelectLast(loop.x))
    IN IF output = NoSym THEN TRaised
       ELSE [ raised |-> "", output |-> output,
              all_attention_weights |-> loop.all_attention_weights,
              embedded |-> embedded, encoded |-> encoded,
              layer_inputs |-> loop.layer_inputs ]

\* optimizer.step() of an optimizer built on model.parameters(): every tensor
\* in that set gets new contents, no other tensor is touched
OptimizerStep(self) ==
    [self EXCEPT !.val = [n \in DOMAIN self.val |->
                            IF n \in Parameters(self) THEN self.val[n] + 1 ELSE self.val[n]]]

\* a symbolic input of shape (B, L, C): one series per batch element, the
\* series of the odd and of the even batch indices being different
Input(B, L, C) == Sym(<<B, L, C>>, [b \in 1..B |-> T("input", b % 2, <<>>)])

(* ========================= TimeSeriesDataset =========================== *)
(* Values are integers: a jump is its base increment plus a noise in        *)
(* {-1, 0, 1}.  A Python index i of an array is index i + 1 of its sequence. *)
val == 3
initial_jump == 5

\* np.zeros(n)
zeros(n) == [i \in 1..n |-> 0]

\* mutant: the loop stops after its first index
range_first_only(start, stop, step) ==
    IF start >= stop THEN <<>> ELSE <<start>>

\* range(start, stop, step): the sequence of its values
RECURSIVE range(_, _, _)
range(start, stop, step) ==
    IF start >= stop THEN <<>> ELSE <<start>> \o range(start + step, stop, step)

\* jump = 0 if i % 2 == 1 else initial_jump
Jump(i) == IF i % 2 = 1 THEN 0 ELSE initial_jump

\* the random point between 0 and val at which the first jump occurs
FirstJumps == 0..(val - 1)

\* the random noise of the k-th jump of a sample
Noise(seed, k) == ((seed + k) % 3) - 1

\* the size of the first jump: initial_jump plus noise
FirstIncrement(seed) == initial_jump + Noise(seed, 0)

\* one iteration of the loop over the samples: the array appended to
\* self.data, with the locals first_jump, the indices written (jumps) and the
\* base increment of each (base); writing at first_jump beyond the end of the
\* array is an IndexError
Sample(seq_len, first_jump, seed) ==
    LET later == range(first_jump + val, seq_len + 1, val)
        jumps == <<first_jump>> \o later
        base  == <<initial_jump>> \o [k \in 1..Len(later) |-> Jump(later[k])]
        added == <<FirstIncrement(seed)>> \o
                 [k \in 1..Len(later) |-> Jump(later[k]) + Noise(seed, k)]
    IN [ raised |-> first_jump > seq_len,
         first_jump |-> first_jump,
         jumps |-> jumps,
         base |-> base,
         time_series |->
             [i \in 1..(seq_len + 1) |->
                 zeros(seq_len + 1)[i]
                 + SumSeq([k \in 1..Len(jumps) |-> IF jumps[k] = i - 1 THEN added[k] ELSE 0])] ]

\* TimeSeriesDataset.__init__(seq_len, num_samples); draws[n] is what the
\* random generator gives to sample n: the first jump and the noise
TimeSeriesDataset_init(seq_len, num_samples, draws) ==
    LET samples == [n \in 1..num_samples |-> Sample(seq_len, draws[n][1], draws[n][2])]
    IN IF \E n \in 1..num_samples : samples[n].raised
       THEN [raised |-> "IndexError", seq_len |-> seq_len, data |-> <<>>, locals |-> <<>>]
       ELSE [ raised |-> "", seq_len |-> seq_len,
              data |-> [n \in 1..num_samples |-> samples[n].time_series],
              locals |-> [n \in 1..num_samples |->
                            [first_jump |-> samples[n].first_jump,
                             jumps |-> samples[n].jumps, base |-> samples[n].base]] ]

\* TimeSeriesDataset.__len__
TimeSeriesDataset_len(self) == Len(self.data)

\* mutant: the whole series is returned as the sequence
TimeSeriesDataset_getitem_whole(self, idx) ==
    IF idx < 0 \/ idx >= Len(self.data)
    THEN [raised |-> "IndexError", sequence |-> <<>>, target |-> 0]
    ELSE LET series == self.data[idx + 1]
         IN [raised |-> "", sequence |-> series, target |-> series[Len(series)]]

\* TimeSeriesDataset.__getitem__(idx): series = self.data[idx];
\* return series[:-1], series[-1]
TimeSeriesDataset_getitem(self, idx) ==
    IF idx < 0 \/ idx >= Len(self.data)
    THEN [raised |-> "IndexError", sequence |-> <<>>, target |-> 0]
    ELSE LET series == self.data[idx + 1]
         IN [ raised |-> "",
              sequence |-> SubSeq(series, 1, Len(series) - 1),
              target |-> series[Len(series)] ]

\* the example of the notebook: TimeSeriesDataset(seq_len=40, num_samples=1)
SampleCase == <<40, 1>>

(* ------------------ lab06: text generation methods --------------------- *)
(* A logit is an integer in units of ln 2, so exp is x |-> 2^x; a          *)
(* probability is the exact rational <<w, S>> = w/S.  A beam-search score  *)
(* is a sum of -log of probabilities: it is kept as the product of those   *)
(* probabilities, <<w, S>> standing for -log(w/S), so adding scores        *)
(* multiplies and a lower score is a larger product.                       *)
\* the token ids, and the one tokenizer.eos_token_id names
Vocab == 0..2
eos_token_id == 2
\* input_ids, as tokenizer.encode returns them (batch of one: the row)
Prompts == {<<0>>, <<1, 2>>}
\* model(input_ids).logits[:, -1, :]: the rows the language model may return
LogitLevels == {0, 1, 5}
LogitRows == [Vocab -> LogitLevels]
\* the values of p (0.9 is the default)
Ps == {<<1, 2>>, <<9, 10>>}
\* the values of beam_width (3 is the default, 4 exceeds the vocabulary)
BeamWidths == {1, 2, 4}
\* the rows the language model returns under beam search: flat and peaked
BeamRows == {[v \in Vocab |-> 0], [v \in Vocab |-> IF v = 0 THEN 1 ELSE 0]}

RECURSIVE SumFun(_, _)
SumFun(f, S) == IF S = {} THEN 0
                ELSE LET v == CHOOSE u \in S : TRUE IN f[v] + SumFun(f, S \ {v})

\* F.softmax(logits, dim=-1)
F_softmax(logits) ==
    LET e == [v \in DOMAIN logits |-> Pow2(logits[v])]
    IN [v \in DOMAIN logits |-> <<e[v], SumFun(e, DOMAIN logits)>>]

\* a <= b and a < b on rationals with positive denominators
LessEq(a, b) == a[1] * b[2] <= b[1] * a[2]
Less(a, b) == a[1] * b[2] < b[1] * a[2]

\* mutant: torch.argmin in place of torch.argmax
torch_argmin(logits) == {v \in DOMAIN logits : \A u \in DOMAIN logits : logits[v] <= logits[u]}

\* torch.argmax(logits, dim=1): the index of a maximal value (any of them on a tie)
torch_argmax(logits) == {v \in DOMAIN logits : \A u \in DOMAIN logits : logits[u] <= logits[v]}

\* torch.sort(logits, descending=True): the sorted_indices it may return
\* (the order of equal values is not specified)
torch_sort(logits) ==
    LET n == Cardinality(DOMAIN logits)
    IN { s \in [1..n -> DOMAIN logits] :
           \A i, j \in 1..n : i < j => s[i] # s[j] /\ logits[s[i]] >= logits[s[j]] }

\* torch.cumsum(probs, dim=-1)
torch_cumsum(probs) == [k \in DOMAIN probs |-> <<SumSeq([j \in 1..k |-> probs[j][1]]), probs[k][2]>>]

\* t[mask] on a row: the values where the mask is True, in order
RECURSIVE BoolIndex(_, _)
BoolIndex(t, mask) ==
    IF t = <<>> THEN <<>>
    ELSE (IF Head(mask) THEN <<Head(t)>> ELSE <<>>) \o BoolIndex(Tail(t), Tail(mask))

\* top_p_indices[0] = True on the 2-D mask of shape (1, vocabulary): index 0
\* is the row, so every column of it becomes True
SetRow0(mask) == [k \in DOMAIN mask |-> TRUE]

\* torch.multinomial(probs, num_samples=1): an index of non-zero probability
torch_multinomial(probs) == {k \in DOMAIN probs : probs[k][1] > 0}

\* one iteration of top_p_sampling up to the draw (lines 1012-1019), for the
\* sorted_indices that torch.sort returned
top_p_locals(logits, sorted_indices, p) ==
    LET sorted_logits == [k \in DOMAIN sorted_indices |-> logits[sorted_indices[k]]]
        cumulative_probs == torch_cumsum(F_softmax(sorted_logits))
        below == [k \in DOMAIN sorted_indices |-> LessEq(cumulative_probs[k], p)]
        none == \A k \in DOMAIN below : ~below[k]
        top_p_indices == IF none THEN SetRow0(below) ELSE below
    IN [ logits |-> logits, sorted_logits |-> sorted_logits,
         sorted_indices |-> sorted_indices,
         cumulative_probs |-> cumulative_probs, fallback |-> none,
         top_p_indices |-> top_p_indices,
         top_p_probs |-> F_softmax(BoolIndex(sorted_logits, top_p_indices)),
         candidates |-> BoolIndex(sorted_indices, top_p_indices) ]

\* torch.topk(probs, k, dim=-1): the top_k_tokens it may return, most probable
\* first (the order of equal values is not specified)
torch_topk(probs, k) ==
    {SubSeq(s, 1, k) : s \in torch_sort([v \in DOMAIN probs |-> probs[v][1]])}

\* score - torch.log(prob)
ScoreMinusLog(score, prob) == <<score[1] * prob[1], score[2] * prob[2]>>
\* the order of two scores: -log a < -log b exactly when a > b
ScoreLess(a, b) == Less(b, a)

\* all_candidates after the two loops of lines 895-904: beam_width extensions
\* of every sequence of the beam, in the order they are appended
Candidates(sequences, rows, tops, beam_width) ==
    [ c \in 1..(Len(sequences) * beam_width) |->
        LET parent == sequences[((c - 1) \div beam_width) + 1]
            top_k_probs == F_softmax(rows[((c - 1) \div beam_width) + 1])
            token == tops[((c - 1) \div beam_width) + 1][((c - 1) % beam_width) + 1]
        IN [ seq |-> Append(parent.seq, token),
             score |-> ScoreMinusLog(parent.score, top_k_probs[token]),
             probs |-> Append(parent.probs, top_k_probs[token]) ] ]

\* mutant: all_candidates left in the order they were appended
sorted_not(all_candidates) == all_candidates

\* sorted(all_candidates, key=lambda x: x[1]): ascending score, stable
RECURSIVE sorted(_)
sorted(all_candidates) ==
    IF Len(all_candidates) = 0 THEN <<>>
    ELSE LET n == Len(all_candidates)
             x == all_candidates[n]
             s == sorted(SubSeq(all_candidates, 1, n - 1))
             k == Cardinality({i \in 1..(n - 1) : ~ScoreLess(x.score, s[i].score)})
         IN SubSeq(s, 1, k) \o <<x>> \o SubSeq(s, k + 1, n - 1)

\* sequences = sorted(...)[:beam_width]
Slice(s, beam_width) == SubSeq(s, 1, IF Len(s) < beam_width THEN Len(s) ELSE beam_width)

(* ---------------------- lab05: int8 quantization ----------------------- *)
(* A tensor is [shape, at]: its shape and its elements in row-major order. *)
(* The elements of W and x are integers; a float computed from them is the *)
(* exact rational <<n, d>> = n/d with d > 0 (float32 rounding of the       *)
(* intermediate values is not modelled).  NaN stands for a float that is   *)
(* not finite (inf, -inf or nan): any arithmetic on it gives NaN again.    *)
\* the values of the elements of x and of W
XValues == {-1, 0, 2}
WValues == {-2, 1}
\* n_rows = 3, n_cols = 5, W[0,0] = 0, x[0] = 0: the notebook's shape, filled
\* with one value after the leading zero
CaseShape == <<3, 5>>
WCase(a) == [shape |-> CaseShape, at |-> [k \in 1..(CaseShape[1] * CaseShape[2]) |-> IF k = 1 THEN 0 ELSE a]]
xCase(b) == [shape |-> <<CaseShape[2]>>, at |-> [k \in 1..CaseShape[2] |-> IF k = 1 THEN 0 ELSE b]]

NaN == <<0, 0>>
IsNaN(a) == a[2] = 0
Abs(a) == IF a < 0 THEN -a ELSE a

RECURSIVE MaxOf(_)
MaxOf(s) == IF Len(s) = 1 THEN s[1]
            ELSE LET r == MaxOf(Tail(s)) IN IF s[1] >= r THEN s[1] ELSE r

\* a / b, a * b and a + b on floats
Div(a, b) ==
    IF IsNaN(a) \/ IsNaN(b) \/ b[1] = 0 THEN NaN
    ELSE IF b[1] > 0 THEN <<a[1] * b[2], a[2] * b[1]>> ELSE <<-(a[1] * b[2]), -(a[2] * b[1])>>
Mul(a, b) == IF IsNaN(a) \/ IsNaN(b) THEN NaN ELSE <<a[1] * b[1], a[2] * b[2]>>
Add(a, b) == IF IsNaN(a) \/ IsNaN(b) THEN NaN ELSE <<a[1] * b[2] + b[1] * a[2], a[2] * b[2]>>
Float(i) == <<i, 1>>

\* .round(): to the nearest integer, a half to the even one
round(a) ==
    LET fl == a[1] \div a[2]
        twice == 2 * (a[1] - fl * a[2])
    IN IF twice < a[2] THEN fl
       ELSE IF twice > a[2] THEN fl + 1
       ELSE IF fl % 2 = 0 THEN fl ELSE fl + 1

Int8Values == -128..127
\* .to(torch.int8) of an integer-valued float: the low 8 bits
to_int8(v) == ((v + 128) % 256) - 128
\* .to(torch.int16) of an int8 value, and the low 16 bits of an integer
to_int16(v) == v
wrap16(v) == ((v + 32768) % 65536) - 32768

\* (W * scale [+ zero_point]).round().to(torch.int8) on the elements; the
\* conversion of a non-finite float to an integer is undefined: nan_cast
\* is what it yields
RoundCast(values, nan_cast) ==
    [ rounded |-> [k \in DOMAIN values |-> IF IsNaN(values[k]) THEN NaN ELSE Float(round(values[k]))],
      at |-> [k \in DOMAIN values |->
                IF IsNaN(values[k]) THEN nan_cast ELSE to_int8(round(values[k]))] ]

\* mutant: scale = 128 / max_value in place of 127 / max_value
absmax_scale_128(max_value) == Div(Float(128), Float(max_value))

\* scale = 127 / max_value (a division by zero gives inf, and 0 * inf is NaN:
\* the all-zero tensor is the only one with max_value = 0)
absmax_scale(max_value) == Div(Float(127), Float(max_value))

\* absmax_quantize(W): W_q and scale; rounded holds (W * scale).round()
absmax_quantize(W, nan_cast) ==
    LET max_value == MaxOf([k \in DOMAIN W.at |-> Abs(W.at[k])])
        scale == absmax_scale(max_value)
        r == RoundCast([k \in DOMAIN W.at |-> Mul(Float(W.at[k]), scale)], nan_cast)
    IN [ W_q |-> [shape |-> W.shape, at |-> r.at], rounded |-> r.rounded,
         scale |-> scale, zero_point |-> Float(0) ]

\* mutant: zero_point = -(127*W.max() + 127*W.min()) / delta
minmax_zero_point_127(W_max, W_min, delta) == Div(Float(-(127 * W_max + 127 * W_min)), Float(delta))

\* zero_point = -(128*W.max() + 127*W.min()) / delta
minmax_zero_point(W_max, W_min, delta) == Div(Float(-(128 * W_max + 127 * W_min)), Float(delta))

\* minmax_quantize(W): W_q, scale and zero_point; rounded holds
\* (W * scale + zero_point).round()
minmax_quantize(W, nan_cast) ==
    LET delta == MaxOf(W.at) - MinSeq(W.at)
        scale == Div(Float(255), Float(delta))
        zero_point == minmax_zero_point(MaxOf(W.at), MinSeq(W.at), delta)
        r == RoundCast([k \in DOMAIN W.at |-> Add(Mul(Float(W.at[k]), scale), zero_point)],
                       nan_cast)
    IN [ W_q |-> [shape |-> W.shape, at |-> r.at], rounded |-> r.rounded,
         scale |-> scale, zero_point |-> zero_point ]

\* quantize by the method of the section: "absmax" or "minmax"
quantize(method, W, nan_cast) ==
    IF method = "absmax" THEN absmax_quantize(W, nan_cast) ELSE minmax_quantize(W, nan_cast)

\* W_q.to(torch.int16) @ x_q.to(torch.int16): the exact sums (exact) and
\* what int16 arithmetic keeps of them
matmul16(W_q, x_q) ==
    LET n_cols == W_q.shape[2]
        dot(i) == SumSeq([j \in 1..n_cols |->
                            to_int16(W_q.at[(i - 1) * n_cols + j]) * to_int16(x_q.at[j])])
    IN [ exact |-> [i \in 1..W_q.shape[1] |-> dot(i)],
         out_q |-> [i \in 1..W_q.shape[1] |-> wrap16(dot(i))] ]

\* the tensors of a shape with elements of a set
Tensors(shape, values) ==
    {[shape |-> shape, at |-> f] : f \in [1..(IF Len(shape) = 1 THEN shape[1] ELSE shape[1] * shape[2]) -> values]}

\* the outcomes of the undefined conversions in quantize(method, W): any int8
\* value, of which the model takes the two ends of the range and 0
NanCasts(method, W) ==
    IF \E k \in DOMAIN W.at : IsNaN(quantize(method, W, 0).rounded[k]) THEN {-128, 0, 127} ELSE {0}

(* ------------------------------ lab05: LoRA ---------------------------- *)
(* A model is the sequence of its parameters in the order of               *)
(* model.parameters(): each is [layer, module, inner, name, shape,         *)
(* requires_grad], where layer is the index of the encoder layer (0        *)
(* outside the encoder), module the path of the owning module and inner    *)
(* "original_layer" for the parameters of a Linear wrapped by LoRA.        *)
\* the configuration of bert-base-uncased with num_labels=2, and a small one
BertBase == [ num_hidden_layers |-> 12, hidden_size |-> 768, intermediate_size |-> 3072,
              vocab_size |-> 30522, max_position_embeddings |-> 512,
              type_vocab_size |-> 2, num_labels |-> 2 ]
BertSmall == [ num_hidden_layers |-> 2, hidden_size |-> 4, intermediate_size |-> 16,
               vocab_size |-> 10, max_position_embeddings |-> 8,
               type_vocab_size |-> 2, num_labels |-> 2 ]
Configs == {BertBase, BertSmall}
\* rank=8, the default of LoRA.__init__
DefaultRank == 8

\* nn.Parameter(tensor of the shape): requires_grad is True by default
nn_Parameter(layer, module, name, shape) ==
    [ layer |-> layer, module |-> module, inner |-> "", name |-> name, shape |-> shape,
      requires_grad |-> TRUE ]

\* the parameters of nn.Linear(in_features, out_features) and of nn.LayerNorm
nn_Linear(layer, module, in_features, out_features) ==
    << nn_Parameter(layer, module, "weight", <<out_features, in_features>>),
       nn_Parameter(layer, module, "bias", <<out_features>>) >>
nn_LayerNorm(layer, module, size) ==
    << nn_Parameter(layer, module, "weight", <<size>>),
       nn_Parameter(layer, module, "bias", <<size>>) >>

\* the Linear layers of an encoder layer that the notebook wraps, in the
\* order of lines 167-172
LoRATargets ==
    << "attention.self.query", "attention.self.key", "attention.self.value",
       "attention.output.dense", "intermediate.dense", "output.dense" >>

\* the parameters of model.bert.encoder.layer[l - 1]
BertLayer(c, l) ==
    nn_Linear(l, "attention.self.query", c.hidden_size, c.hidden_size)
    \o nn_Linear(l, "attention.self.key", c.hidden_size, c.hidden_size)
    \o nn_Linear(l, "attention.self.value", c.hidden_size, c.hidden_size)
    \o nn_Linear(l, "attention.output.dense", c.hidden_size, c.hidden_size)
    \o nn_LayerNorm(l, "attention.output.LayerNorm", c.hidden_size)
    \o nn_Linear(l, "intermediate.dense", c.hidden_size, c.intermediate_size)
    \o nn_Linear(l, "output.dense", c.intermediate_size, c.hidden_size)
    \o nn_LayerNorm(l, "output.LayerNorm", c.hidden_size)

\* BertForSequenceClassification.from_pretrained(...): its parameters
BertForSequenceClassification(c) ==
    << nn_Parameter(0, "bert.embeddings.word_embeddings", "weight", <<c.vocab_size, c.hidden_size>>),
       nn_Parameter(0, "bert.embeddings.position_embeddings", "weight",
                    <<c.max_position_embeddings, c.hidden_size>>),
       nn_Parameter(0, "bert.embeddings.token_type_embeddings", "weight",
                    <<c.type_vocab_size, c.hidden_size>>) >>
    \o nn_LayerNorm(0, "bert.embeddings.LayerNorm", c.hidden_size)
    \o Flatten([l \in 1..c.num_hidden_layers |-> BertLayer(c, l)])
    \o nn_Linear(0, "bert.pooler.dense", c.hidden_size, c.hidden_size)
    \o nn_Linear(0, "classifier", c.hidden_size, c.num_labels)

\* param.numel()
numel(param) == IF Len(param.shape) = 1 THEN param.shape[1] ELSE param.shape[1] * param.shape[2]

\* LoRA(original_layer, rank) on the Linear whose parameters are weight and
\* bias: A is (in_features, rank), B is (rank, out_features), and the Linear
\* becomes the submodule original_layer
LoRA_init(weight, bias, rank) ==
    << nn_Parameter(weight.layer, weight.module, "A", <<weight.shape[2], rank>>),
       nn_Parameter(weight.layer, weight.module, "B", <<rank, weight.shape[1]>>),
       [weight EXCEPT !.inner = "original_layer"],
       [bias EXCEPT !.inner = "original_layer"] >>

\* one assignment of lines 167-172: layer.<module> = LoRA(layer.<module>)
WrapModule(params, layer, module) ==
    LET k == CHOOSE j \in DOMAIN params :
                 /\ params[j].layer = layer
                 /\ params[j].module = module
                 /\ params[j].name = "weight"
    IN SubSeq(params, 1, k - 1)
       \o LoRA_init(params[k], params[k + 1], DefaultRank)
       \o SubSeq(params, k + 2, Len(params))

\* the six assignments of one iteration of the loop of lines 166-172
RECURSIVE WrapTargets(_, _, _)
WrapTargets(params, layer, n) ==
    IF n = 0 THEN params
    ELSE WrapModule(WrapTargets(params, layer, n - 1), layer, LoRATargets[n])

\* param.requires_grad = False on the k-th parameter of model.parameters()
Freeze(params, k) == [params EXCEPT ![k].requires_grad = FALSE]

\* mutant: every parameter of the LoRA modules and of their original layers
IsLoRAParameter_whole(param) == param.name \in {"A", "B"} \/ param.inner = "original_layer"

\* layer.A, layer.B of a module that is an instance of LoRA
IsLoRAParameter(param) == param.name \in {"A", "B"} /\ param.inner = ""

\* the LoRA modules in the order of model.modules()
LoRAModules(params) ==
    LET idx == {k \in DOMAIN params : params[k].name = "A" /\ params[k].inner = ""}
        nth(n) == CHOOSE k \in idx : Cardinality({j \in idx : j < k}) = n - 1
    IN [n \in 1..Cardinality(idx) |-> [layer |-> params[nth(n)].layer, module |-> params[nth(n)].module]]

\* layer.A.requires_grad = True; layer.B.requires_grad = True
Unfreeze(params, lora) ==
    [ k \in DOMAIN params |->
        IF params[k].layer = lora.layer /\ params[k].module = lora.module
           /\ IsLoRAParameter(params[k])
        THEN [params[k] EXCEPT !.requires_grad = TRUE]
        ELSE params[k] ]

\* print_trainable_parameters: trainable_params and all_param
RECURSIVE SumRange(_, _, _)
SumRange(f, lo, hi) ==
    IF lo > hi THEN 0
    ELSE IF lo = hi THEN f[lo]
    ELSE SumRange(f, lo, (lo + hi) \div 2) + SumRange(f, ((lo + hi) \div 2) + 1, hi)
trainable_params(params) ==
    SumRange([k \in DOMAIN params |-> IF params[k].requires_grad THEN numel(params[k]) ELSE 0],
             1, Len(params))
all_param(params) == SumRange([k \in DOMAIN params |-> numel(params[k])], 1, Len(params))

(* ------------------------------ state ---------------------------------- *)
VARIABLES
    pc,       \* the attention unit's caller: "new" | "ready" | "done"
    unit,     \* the ScaledDotProductAttention object
    args,     \* the arguments of the last call
    result,   \* what the last call returned or raised
    tpc,      \* the Transformer's caller: "new" | "built" | "returned"
    model,    \* the Transformer object
    inp,      \* the argument of the last model(x)
    fwd,      \* what the last model(x) returned or raised, and its locals
    first_call, \* the first model(x) made in evaluation mode: model, argument, result,
              \* and whether a call on another argument has followed it
    dpc,      \* the dataset's caller: "new" | "built" | "raised"
    dataset,  \* the TimeSeriesDataset object
    num,      \* the num_samples the dataset was built with
    item,     \* the last index asked for and what dataset[idx] or len(dataset) gave
    gpc,      \* greedy_sampling: "new" | "loop" | "returned"
    gs,       \* its arguments and locals
    bpc,      \* beam_search: "new" | "loop" | "returned" | "raised"
    bs,       \* its arguments and locals
    ppc,      \* top_p_sampling: "new" | "loop" | "returned"
    ps,       \* its arguments and locals
    qpc,      \* the quantization cells: "new" | "W" | "x" | "out"
    qs,       \* the method, W, x, their quantizations and out_q
    lpc,      \* the LoRA cells: "new" | "wrap" | "freeze" | "unfreeze" | "done"
    lm        \* the BERT model: its configuration, its parameters, the loop index

uvars == <<pc, unit, args, result>>
tvars == <<tpc, model, inp, fwd, first_call>>
dvars == <<dpc, dataset, num, item>>
gvars == <<gpc, gs>>
bvars == <<bpc, bs>>
pvars == <<ppc, ps>>
qvars == <<qpc, qs>>
lvars == <<lpc, lm>>
xvars == <<gvars, bvars, pvars, qvars, lvars>>
vars == <<pc, unit, args, result, tpc, model, inp, fwd, first_call, dpc, dataset, num, item,
          gpc, gs, bpc, bs, ppc, ps, qpc, qs, lpc, lm>>

NoUnit == SDPA_init(1, 1, TRUE, 0)
NoArgs == [query |-> NoTensor, key |-> NoTensor, value |-> NoTensor, mask |-> NoMask]
NoModel == Transformer_init(1, 1, 1, 0, 1, "None", 0, 0)
NoRun == [ raised |-> "", output |-> NoSym, all_attention_weights |-> <<>>,
           embedded |-> NoSym, encoded |-> NoSym, layer_inputs |-> <<>> ]

NoCall == [model |-> NoModel, inp |-> NoSym, fwd |-> NoRun, followed |-> FALSE]

NoDataset == TimeSeriesDataset_init(0, 0, <<>>)
NoItem == [op |-> "", idx |-> 0, raised |-> "", sequence |-> <<>>, target |-> 0, len |-> 0]

NoGreedy == [ prompt |-> <<>>, input_ids |-> <<>>, max_length |-> 0, i |-> 0,
              logits |-> <<>>, next_token |-> -1, result |-> <<>> ]
NoBeam == [ prompt |-> <<>>, max_length |-> 0, beam_width |-> 0, i |-> 0,
            sequences |-> <<>>, previous |-> <<>>, rows |-> <<>>,
            all_candidates |-> <<>>, raised |-> "", result |-> <<>> ]
NoLocals == [ logits |-> <<>>, sorted_logits |-> <<>>, sorted_indices |-> <<>>,
              cumulative_probs |-> <<>>, fallback |-> FALSE, top_p_indices |-> <<>>,
              top_p_probs |-> <<>>, candidates |-> <<>> ]
NoTopP == [ prompt |-> <<>>, output |-> <<>>, max_length |-> 0, p |-> <<0, 1>>, i |-> 0,
            locals |-> NoLocals, sampled_index |-> -1, next_token |-> -1, result |-> <<>> ]

NoTensor2 == [shape |-> <<>>, at |-> <<>>]
NoQuantized == [W_q |-> NoTensor2, rounded |-> <<>>, scale |-> NaN, zero_point |-> NaN]
NoQuant == [ method |-> "", W |-> NoTensor2, x |-> NoTensor2, QW |-> NoQuantized,
            Qx |-> NoQuantized, out |-> [exact |-> <<>>, out_q |-> <<>>] ]

NoBert == [config |-> BertSmall, params |-> <<>>, i |-> 0]

Init ==
    /\ pc = "new"
    /\ unit = NoUnit
    /\ args = NoArgs
    /\ result = Raised("")
    /\ tpc = "new"
    /\ model = NoModel
    /\ inp = NoSym
    /\ fwd = NoRun
    /\ first_call = NoCall
    /\ dpc = "new"
    /\ dataset = NoDataset
    /\ num = 0
    /\ item = NoItem
    /\ gpc = "new"
    /\ gs = NoGreedy
    /\ bpc = "new"
    /\ bs = NoBeam
    /\ ppc = "new"
    /\ ps = NoTopP
    /\ qpc = "new"
    /\ qs = NoQuant
    /\ lpc = "new"
    /\ lm = NoBert

(* -------------------- actions: the attention unit ---------------------- *)
\* unit = ScaledDotProductAttention(seq_len, d_k, flag)
Construct ==
    /\ pc = "new"
    /\ \E seq_len \in 1..MaxSeq, d_k \in FeatDims, flag \in BOOLEAN, seed \in Seeds :
          unit' = SDPA_init(seq_len, d_k, flag, seed)
    /\ pc' = "ready"
    /\ UNCHANGED <<args, result, tvars, dvars, xvars>>

\* output, weights = unit(query, key, value)
Call ==
    /\ pc = "ready"
    /\ unit.d_k \in FeatDims
    /\ \E Bq \in 1..MaxBatch, Bk \in 1..MaxBatch, Bv \in 1..MaxBatch,
          Lq \in 1..MaxSeq, Lk \in 1..MaxSeq, Lv \in 1..MaxSeq,
          Dq \in FeatDims, Dk \in FeatDims, Dv \in FeatDims :
          LET query == Pattern(Bq, Lq, Dq, 0)
              key   == Pattern(Bk, Lk, Dk, 1)
              value == Pattern(Bv, Lv, Dv, 2)
          IN /\ args' = [query |-> query, key |-> key, value |-> value, mask |-> NoMask]
             /\ result' = SDPA_call(unit, query, key, value, NoMask)
    /\ pc' = "done"
    /\ UNCHANGED <<unit, tvars, dvars, xvars>>

\* output, weights = unit(query, key, value, mask)
CallMasked ==
    /\ pc = "ready"
    /\ unit.d_k \in FeatDims
    /\ \E B \in 1..MaxBatch, L \in 1..MaxSeq, D \in FeatDims, seed \in Seeds :
          LET query == Pattern(B, L, D, seed)
              key   == Pattern(B, L, D, seed + 1)
              value == Pattern(B, L, D, seed + 2)
          IN /\ args' = [query |-> query, key |-> key, value |-> value, mask |-> MaskLast(L)]
             /\ result' = SDPA_call(unit, query, key, value, MaskLast(L))
    /\ pc' = "done"
    /\ UNCHANGED <<unit, tvars, dvars, xvars>>

\* unit = ScaledDotProductAttention(10, 16, flag)
ConstructCase ==
    /\ pc = "new"
    /\ \E flag \in BOOLEAN, seed \in Seeds :
          unit' = SDPA_init(ShapeCase[2], ShapeCase[3], flag, seed)
    /\ pc' = "ready"
    /\ UNCHANGED <<args, result, tvars, dvars, xvars>>

\* output, weights = unit(x, x, x) with x of shape (2, 10, 16)
CallCase ==
    /\ pc = "ready"
    /\ unit.d_k = ShapeCase[3]
    /\ LET x == Ones(ShapeCase[1], ShapeCase[2], ShapeCase[3])
       IN /\ args' = [query |-> x, key |-> x, value |-> x, mask |-> NoMask]
          /\ result' = SDPA_call(unit, x, x, x, NoMask)
    /\ pc' = "done"
    /\ UNCHANGED <<unit, tvars, dvars, xvars>>

Next == Construct \/ Call \/ CallMasked \/ ConstructCase \/ CallCase

Spec == Init /\ [][Next]_vars

(* ---------------------- actions: the Transformer ----------------------- *)
\* model = Transformer(input_size, d_model, dim_feedforward, num_layers,
\*                     seq_len, positional_encoding, max_len=max_len)
TConstruct ==
    /\ tpc = "new"
    /\ \E d_model \in DModels, num_layers \in 1..MaxLayers, seq_len \in 1..MaxSeq,
          positional_encoding \in {"None", "PositionalEncoding"},
          max_len \in MaxLens, seed \in Seeds :
          model' = Transformer_init(InputSize, d_model, 4 * d_model, num_layers, seq_len,
                                    positional_encoding, max_len, seed)
    /\ tpc' = "built"
    /\ UNCHANGED <<inp, fwd, first_call, uvars, dvars, xvars>>

\* model.eval()
ModelEval ==
    /\ tpc = "built"
    /\ model.training
    /\ model' = [model EXCEPT !.training = FALSE]
    /\ UNCHANGED <<tpc, inp, fwd, first_call, uvars, dvars, xvars>>

\* model.train()
ModelTrain ==
    /\ tpc = "built"
    /\ ~model.training
    /\ model' = [model EXCEPT !.training = TRUE]
    /\ UNCHANGED <<tpc, inp, fwd, first_call, uvars, dvars, xvars>>

\* one optimizer.step() of the training loop
TrainStep ==
    /\ tpc = "built"
    /\ model.training
    /\ model.val[[layer |-> 0, path |-> "fc_out.weight"]] < MaxSteps
    /\ model' = OptimizerStep(model)
    /\ UNCHANGED <<tpc, inp, fwd, first_call, uvars, dvars, xvars>>

\* output, all_attention_weights = model(x); the first call made in evaluation
\* mode is remembered
Call_model(x) ==
    /\ inp' = x
    /\ fwd' = Transformer_forward(model, inp')
    /\ first_call' =
           IF model.training THEN first_call
           ELSE IF first_call = NoCall
           THEN [model |-> model, inp |-> inp', fwd |-> fwd', followed |-> FALSE]
           ELSE [first_call EXCEPT !.followed = @ \/ inp' # first_call.inp]

\* the first model(x) on the model, x of shape (B, L, InputSize)
Forward ==
    /\ tpc = "built"
    /\ \E B \in 1..MaxBatch, L \in 1..MaxSeq : Call_model(Input(B, L, InputSize))
    /\ tpc' = "returned"
    /\ UNCHANGED <<model, uvars, dvars, xvars>>

NextT == TConstruct \/ ModelEval \/ ModelTrain \/ TrainStep \/ Forward

SpecT == Init /\ [][NextT]_vars

\* a further model(x) in evaluation mode: any input, any number of times, until
\* an input other than the first has been given; after that the first input again
ForwardAgain ==
    /\ tpc = "returned"
    /\ ~model.training
    /\ \E B \in 1..MaxBatch, L \in 1..MaxSeq :
          /\ first_call.followed => Input(B, L, InputSize) = first_call.inp
          /\ Call_model(Input(B, L, InputSize))
    /\ UNCHANGED <<tpc, model, uvars, dvars, xvars>>

\* a caller that builds a model, may put it in evaluation mode, and calls it
\* repeatedly
NextE == TConstruct \/ ModelEval \/ Forward \/ ForwardAgain

SpecE == Init /\ [][NextE]_vars

(* ------------------------ actions: the dataset ------------------------- *)
\* dataset = TimeSeriesDataset(seq_len, num_samples)
DConstruct ==
    /\ dpc = "new"
    /\ \E seq_len \in 1..MaxSeqLen, num_samples \in 0..MaxSamples :
          \E draws \in [1..num_samples -> FirstJumps \X NoiseSeeds] :
              /\ dataset' = TimeSeriesDataset_init(seq_len, num_samples, draws)
              /\ num' = num_samples
              /\ dpc' = IF dataset'.raised = "" THEN "built" ELSE "raised"
    /\ UNCHANGED <<item, uvars, tvars, xvars>>

\* dataset = TimeSeriesDataset(seq_len=40, num_samples=1)
DConstructCase ==
    /\ dpc = "new"
    /\ \E draws \in [1..SampleCase[2] -> FirstJumps \X NoiseSeeds] :
          dataset' = TimeSeriesDataset_init(SampleCase[1], SampleCase[2], draws)
    /\ num' = SampleCase[2]
    /\ dpc' = "built"
    /\ UNCHANGED <<item, uvars, tvars, xvars>>

\* len(dataset)
DLen ==
    /\ dpc = "built"
    /\ item' = [NoItem EXCEPT !.op = "len", !.len = TimeSeriesDataset_len(dataset)]
    /\ UNCHANGED <<dpc, dataset, num, uvars, tvars, xvars>>

\* x, y = dataset[idx], for the indices 0..num_samples-1 and the one after
DGetItem ==
    /\ dpc = "built"
    /\ \E idx \in 0..num :
          LET r == TimeSeriesDataset_getitem(dataset, idx)
          IN item' = [ op |-> "getitem", idx |-> idx, raised |-> r.raised,
                       sequence |-> r.sequence, target |-> r.target, len |-> 0 ]
    /\ UNCHANGED <<dpc, dataset, num, uvars, tvars, xvars>>

NextD == DConstruct \/ DConstructCase \/ DLen \/ DGetItem

SpecD == Init /\ [][NextD]_vars

(* ----------------------- actions: greedy_sampling ---------------------- *)
\* greedy_sampling(model, input_ids, max_length), up to the loop
GreedyCall ==
    /\ gpc = "new"
    /\ \E input_ids \in Prompts, max_length \in 0..MaxLength :
          gs' = [NoGreedy EXCEPT !.prompt = input_ids, !.input_ids = input_ids,
                                 !.max_length = max_length]
    /\ gpc' = "loop"
    /\ UNCHANGED <<uvars, tvars, dvars, bvars, pvars, qvars, lvars>>

\* one iteration of the loop; on EOS: break, return input_ids
GreedyStep ==
    /\ gpc = "loop"
    /\ gs.i < gs.max_length
    /\ \E logits \in LogitRows :
          \E next_token \in torch_argmax(logits) :
              /\ gs' = [gs EXCEPT !.i = @ + 1, !.logits = logits,
                                  !.next_token = next_token,
                                  !.input_ids = Append(@, next_token),
                                  !.result = IF next_token = eos_token_id
                                             THEN Append(gs.input_ids, next_token)
                                             ELSE @]
              /\ gpc' = IF next_token = eos_token_id THEN "returned" ELSE "loop"
    /\ UNCHANGED <<uvars, tvars, dvars, bvars, pvars, qvars, lvars>>

\* the loop is exhausted: return input_ids
GreedyReturn ==
    /\ gpc = "loop"
    /\ gs.i >= gs.max_length
    /\ gs' = [gs EXCEPT !.result = gs.input_ids]
    /\ gpc' = "returned"
    /\ UNCHANGED <<uvars, tvars, dvars, bvars, pvars, qvars, lvars>>

NextG == GreedyCall \/ GreedyStep \/ GreedyReturn

SpecG == Init /\ [][NextG]_vars

\* a call of the language model returns, so a started iteration completes
SpecGFair == SpecG /\ WF_vars(GreedyStep) /\ WF_vars(GreedyReturn)

(* ----------------------- actions: top_p_sampling ----------------------- *)
\* top_p_sampling(model, input_ids, max_length, p), up to the loop
TopPCall ==
    /\ ppc = "new"
    /\ \E input_ids \in Prompts, max_length \in 0..MaxLength, p \in Ps :
          ps' = [NoTopP EXCEPT !.prompt = input_ids, !.output = input_ids,
                               !.max_length = max_length, !.p = p]
    /\ ppc' = "loop"
    /\ UNCHANGED <<uvars, tvars, dvars, gvars, bvars, qvars, lvars>>

\* one iteration of the loop (sampled_index counts from 1); on EOS: break,
\* return output
TopPStep ==
    /\ ppc = "loop"
    /\ ps.i < ps.max_length
    /\ \E logits \in LogitRows :
          \E sorted_indices \in torch_sort(logits) :
              \E locals \in {top_p_locals(logits, sorted_indices, ps.p)} :
                 \E sampled_index \in torch_multinomial(locals.top_p_probs) :
                    LET next_token == locals.candidates[sampled_index]
                    IN /\ ps' = [ps EXCEPT !.i = @ + 1, !.locals = locals,
                                           !.sampled_index = sampled_index,
                                           !.next_token = next_token,
                                           !.output = Append(@, next_token),
                                           !.result = IF next_token = eos_token_id
                                                      THEN Append(ps.output, next_token)
                                                      ELSE @]
                       /\ ppc' = IF next_token = eos_token_id THEN "returned" ELSE "loop"
    /\ UNCHANGED <<uvars, tvars, dvars, gvars, bvars, qvars, lvars>>

\* the loop is exhausted: return output
TopPReturn ==
    /\ ppc = "loop"
    /\ ps.i >= ps.max_length
    /\ ps' = [ps EXCEPT !.result = ps.output]
    /\ ppc' = "returned"
    /\ UNCHANGED <<uvars, tvars, dvars, gvars, bvars, qvars, lvars>>

NextP == TopPCall \/ TopPStep \/ TopPReturn

SpecP == Init /\ [][NextP]_vars

(* ------------------------- actions: beam_search ------------------------ *)
\* beam_search(model, input_ids, max_length, beam_width), up to the loop:
\* sequences = [(input_ids, 0)]
BeamCall ==
    /\ bpc = "new"
    /\ \E input_ids \in Prompts, max_length \in 0..MaxLength, beam_width \in BeamWidths :
          bs' = [NoBeam EXCEPT !.prompt = input_ids, !.max_length = max_length,
                               !.beam_width = beam_width,
                               !.sequences = << [seq |-> input_ids, score |-> <<1, 1>>,
                                                 probs |-> <<>>] >>]
    /\ bpc' = "loop"
    /\ UNCHANGED <<uvars, tvars, dvars, gvars, pvars, qvars, lvars>>

\* one iteration of the loop: the language model returns a row for every
\* sequence of the beam and torch.topk its top tokens (it raises when
\* beam_width exceeds the vocabulary); on EOS at the end of the best
\* sequence: break, return sequences[0][0].  previous and rows record the
\* beam the iteration started from and the rows the model returned.
BeamStep ==
    /\ bpc = "loop"
    /\ bs.i < bs.max_length
    /\ IF bs.beam_width > Cardinality(Vocab)
       THEN /\ bs' = [bs EXCEPT !.raised = "RuntimeError"]
            /\ bpc' = "raised"
       ELSE \E rows \in [1..Len(bs.sequences) -> BeamRows] :
               \E tops \in [1..Len(bs.sequences) ->
                              UNION {torch_topk(F_softmax(r), bs.beam_width) : r \in BeamRows}] :
                  /\ \A n \in 1..Len(bs.sequences) :
                        tops[n] \in torch_topk(F_softmax(rows[n]), bs.beam_width)
                  /\ LET all_candidates == Candidates(bs.sequences, rows, tops, bs.beam_width)
                         sequences == Slice(sorted(all_candidates), bs.beam_width)
                         stop == sequences[1].seq[Len(sequences[1].seq)] = eos_token_id
                     IN /\ bs' = [bs EXCEPT !.i = @ + 1, !.previous = bs.sequences,
                                            !.rows = rows,
                                            !.all_candidates = all_candidates,
                                            !.sequences = sequences,
                                            !.result = IF stop THEN sequences[1].seq ELSE @]
                        /\ bpc' = IF stop THEN "returned" ELSE "loop"
    /\ UNCHANGED <<uvars, tvars, dvars, gvars, pvars, qvars, lvars>>

\* the loop is exhausted: return sequences[0][0]
BeamReturn ==
    /\ bpc = "loop"
    /\ bs.i >= bs.max_length
    /\ bs' = [bs EXCEPT !.result = bs.sequences[1].seq]
    /\ bpc' = "returned"
    /\ UNCHANGED <<uvars, tvars, dvars, gvars, pvars, qvars, lvars>>

NextB == BeamCall \/ BeamStep \/ BeamReturn

SpecB == Init /\ [][NextB]_vars

(* ------------------------ actions: quantization ------------------------ *)
\* W_q, scale_W[, zero_point_W] = absmax_quantize(W) or minmax_quantize(W)
QuantizeW ==
    /\ qpc = "new"
    /\ \E method \in {"absmax", "minmax"}, n_rows \in 1..MaxRows, n_cols \in 1..MaxCols :
          \E W \in Tensors(<<n_rows, n_cols>>, WValues) :
             \E nan_cast \in NanCasts(method, W) :
                qs' = [NoQuant EXCEPT !.method = method, !.W = W,
                                      !.QW = quantize(method, W, nan_cast)]
    /\ qpc' = "W"
    /\ UNCHANGED <<uvars, tvars, dvars, gvars, bvars, pvars, lvars>>

\* the same for the notebook's n_rows = 3, n_cols = 5 and W[0,0] = 0
QuantizeWCase ==
    /\ qpc = "new"
    /\ \E method \in {"absmax", "minmax"}, a \in WValues :
          qs' = [NoQuant EXCEPT !.method = method, !.W = WCase(a),
                                !.QW = quantize(method, WCase(a), 0)]
    /\ qpc' = "W"
    /\ UNCHANGED <<uvars, tvars, dvars, gvars, bvars, pvars, lvars>>

\* x_q, scale_x[, zero_point_x] = absmax_quantize(x) or minmax_quantize(x)
QuantizeX ==
    /\ qpc = "W"
    /\ \E x \in IF qs.W.shape = CaseShape
                THEN {xCase(b) : b \in XValues \ {0}}
                ELSE Tensors(<<qs.W.shape[2]>>, XValues) :
          \E nan_cast \in NanCasts(qs.method, x) :
             qs' = [qs EXCEPT !.x = x, !.Qx = quantize(qs.method, x, nan_cast)]
    /\ qpc' = "x"
    /\ UNCHANGED <<uvars, tvars, dvars, gvars, bvars, pvars, lvars>>

\* out_q = W_q.to(torch.int16) @ x_q.to(torch.int16)
MatMul16 ==
    /\ qpc = "x"
    /\ qs' = [qs EXCEPT !.out = matmul16(qs.QW.W_q, qs.Qx.W_q)]
    /\ qpc' = "out"
    /\ UNCHANGED <<uvars, tvars, dvars, gvars, bvars, pvars, lvars>>

NextQ == QuantizeW \/ QuantizeWCase \/ QuantizeX \/ MatMul16

SpecQ == Init /\ [][NextQ]_vars

(* ---------------------------- actions: LoRA ---------------------------- *)
\* model = BertForSequenceClassification.from_pretrained(...)
LoadModel ==
    /\ lpc = "new"
    /\ \E c \in Configs :
          lm' = [config |-> c, params |-> BertForSequenceClassification(c), i |-> 0]
    /\ lpc' = "wrap"
    /\ UNCHANGED <<uvars, tvars, dvars, gvars, bvars, pvars, qvars>>

\* one iteration of 'for layer in model.bert.encoder.layer'
WrapLayer ==
    /\ lpc = "wrap"
    /\ lm.i < lm.config.num_hidden_layers
    /\ lm' = [lm EXCEPT !.i = @ + 1,
                        !.params = WrapTargets(@, lm.i + 1, Len(LoRATargets))]
    /\ UNCHANGED <<lpc, uvars, tvars, dvars, gvars, bvars, pvars, qvars>>

\* the loop ends and the next cell starts
WrapDone ==
    /\ lpc = "wrap"
    /\ lm.i = lm.config.num_hidden_layers
    /\ lm' = [lm EXCEPT !.i = 0]
    /\ lpc' = "freeze"
    /\ UNCHANGED <<uvars, tvars, dvars, gvars, bvars, pvars, qvars>>

\* one iteration of 'for param in model.parameters()'; after the last one
\* the loop over model.modules() starts
FreezeParam ==
    /\ lpc = "freeze"
    /\ IF lm.i < Len(lm.params)
       THEN /\ lm' = [lm EXCEPT !.i = @ + 1, !.params = Freeze(@, lm.i + 1)]
            /\ lpc' = lpc
       ELSE /\ lm' = [lm EXCEPT !.i = 0]
            /\ lpc' = "unfreeze"
    /\ UNCHANGED <<uvars, tvars, dvars, gvars, bvars, pvars, qvars>>

\* one iteration of 'for layer in model.modules()' on an instance of LoRA
\* (the other modules are passed over); after the last one the cell is done
UnfreezeLoRA ==
    /\ lpc = "unfreeze"
    /\ IF lm.i < Len(LoRAModules(lm.params))
       THEN /\ lm' = [lm EXCEPT !.i = @ + 1,
                                !.params = Unfreeze(@, LoRAModules(lm.params)[lm.i + 1])]
            /\ lpc' = lpc
       ELSE /\ lm' = lm
            /\ lpc' = "done"
    /\ UNCHANGED <<uvars, tvars, dvars, gvars, bvars, pvars, qvars>>

NextL == LoadModel \/ WrapLayer \/ WrapDone \/ FreezeParam \/ UnfreezeLoRA

SpecL == Init /\ [][NextL]_vars

(* ------------------------------ claims --------------------------------- *)
Done == pc = "done"
ReturnedOk == Done /\ result.raised = ""

\* a row of weights <<E, S>>: every entry non-negative over one positive
\* denominator, and the numerators add up to that denominator
RowStochastic(row) ==
    /\ \A j \in 1..Len(row) : row[j][1] >= 0 /\ row[j][2] > 0 /\ row[j][2] = row[1][2]
    /\ SumSeq([j \in 1..Len(row) |-> row[j][1]]) = row[1][2]

\* C1: whenever forward returns, with or without the relative bias, every row
\* (over the key axis) of the returned attention weights sums to 1 and has only
\* non-negative entries.
C1_RowsSumToOne ==
    ReturnedOk =>
        \A b \in 1..Size0(result.weights) : \A i \in 1..Size1(result.weights) :
            RowStochastic(result.weights[b][i])

\* a returned call with the bias active and a row that is not uniform
C1_Witness ==
    /\ ReturnedOk
    /\ ~unit.other_positional_encodings_present
    /\ \E b \in 1..Size0(result.weights) : \E i \in 1..Size1(result.weights) :
          /\ Size2(result.weights) >= 2
          /\ result.weights[b][i][1][1] # result.weights[b][i][2][1]

\* the shapes of the three arguments of the last call
Bq == Size0(args.query)
Lq == Size1(args.query)
Dq == Size2(args.query)
SameBatchAndLength ==
    /\ Size0(args.key) = Bq /\ Size0(args.value) = Bq
    /\ Size1(args.key) = Lq /\ Size1(args.value) = Lq

\* the weight at a masked position is negligible against its row
Negligible(w) == w[1] * 1024 <= w[2]

C6_FailsFast ==
    (Done /\ args.mask = NoMask /\ (Dq # Size2(args.key) \/ ~SameBatchAndLength)) =>
        result.raised # "" /\ result.output = NoTensor

\* C9: for query, key of shape (B, L, d_k) and value of shape (B, L, d_v), on a
\* unit configured for sequence length L, forward returns an output of shape
\* (B, L, d_v) and weights of shape (B, L, L).
C9_Shapes ==
    (Done /\ args.mask = NoMask /\ Shape(args.key) = Shape(args.query)
          /\ SameBatchAndLength /\ unit.seq_len = Lq) =>
        /\ result.raised = ""
        /\ Shape(result.output) = <<Bq, Lq, Size2(args.value)>>
        /\ Shape(result.weights) = <<Bq, Lq, Lq>>

\* the documented example: three arguments of shape (2, 10, 16), bias active
C9_Witness ==
    /\ Done
    /\ ~unit.other_positional_encodings_present
    /\ Shape(args.query) = ShapeCase /\ Shape(args.key) = ShapeCase
    /\ Shape(args.value) = ShapeCase
    /\ Shape(result.output) = <<2, 10, 16>>
    /\ Shape(result.weights) = <<2, 10, 10>>

\* C10 (as claimed): the scores are divided by the square root of the feature
\* dimension of the query/key tensors passed in: what forward returns is what
\* it returns when the divisor is sqrt(query.size(-1)).
C10_ScaledByActualDim ==
    ReturnedOk =>
        result = SDPA_forward([unit EXCEPT !.d_k = Dq], args.query, args.key, args.value)

(* ----------------------- claims: the Transformer ---------------------- *)
TDone == tpc = "returned"
TReturned == TDone /\ fwd.raised = ""
NumLayers == Len(model.encoder_layers)
Absolute == model.positional_encoding # "None"
Unit(i) == model.encoder_layers[i].attention.scaled_dot_attention
RelPath == "attention.scaled_dot_attention.rel_layer"

\* the pass added the absolute encoding to the embedding
AbsoluteAdded == fwd.encoded # fwd.embedded
\* block i added its own rel_layer to its scores: the argument of its softmax
\* is the sum of the scaled scores and the rel_layer of block i
BiasAdded(i) ==
    \E b \in 1..Len(fwd.all_attention_weights[i].at) :
        LET scores == fwd.all_attention_weights[i].at[b].args[1]
        IN /\ scores.op = "add"
           /\ scores.args[2].op = RelPath /\ scores.args[2].n = i

\* C2: every block of a constructed Transformer carries the same flag, true
\* exactly when a positional encoding was given, and in every forward pass
\* the absolute encoding is added to the embedding if and only if no block
\* adds its relative bias (and then every block adds it).
C2_OneScheme ==
    /\ tpc # "new" =>
          \A i \in 1..NumLayers : Unit(i).other_positional_encodings_present = Absolute
    /\ TReturned =>
          \A i \in 1..NumLayers : AbsoluteAdded <=> ~BiasAdded(i)

\* a returned pass through two blocks with the absolute encoding
C2_Witness == TReturned /\ NumLayers >= 2 /\ AbsoluteAdded /\ ~BiasAdded(2)

\* other contents for a rel_layer of shape (1, S, S): zero, and a non-constant one
AltRels(S) == { << [i \in 1..S |-> [j \in 1..S |-> 0]] >>, randn(S, 1) }

WithRel(m, rels) ==
    [m EXCEPT !.encoder_layers =
        [i \in 1..Len(m.encoder_layers) |->
            [m.encoder_layers[i] EXCEPT !.attention.scaled_dot_attention.rel_layer = rels[i]]]]

\* C3: with an absolute positional encoding, what forward returns (or that it
\* raises) is the same for every contents of every block's rel_layer: a model
\* that differs only in the rel_layer tensors gives the identical result.
C3_RelNeverRead ==
    (TDone /\ Absolute) =>
        \A rels \in [1..NumLayers -> AltRels(Unit(1).seq_len)] :
            Transformer_forward(WithRel(model, rels), inp) = fwd

\* a returned pass with the absolute encoding one of whose blocks holds yet another bias
C3_Witness ==
    /\ TReturned /\ Absolute /\ NumLayers >= 2
    /\ \E i \in 1..NumLayers : Unit(i).rel_layer \notin AltRels(Unit(i).seq_len)

\* C4 (as claimed): PositionalEncoding.forward adds row p of the table to
\* sequence position p of every batch element, p = 0..seq_len-1.
C4_RowPerPosition ==
    (TReturned /\ Absolute) =>
        \A b \in 1..inp.shape[1] :
            fwd.encoded.at[b] =
                T("add", 0, << fwd.embedded.at[b],
                               T("rows", 0, [p \in 1..inp.shape[2] |-> PeRow(p - 1)]) >>)

\* C7 (as claimed): every block's rel_layer belongs to the parameter set of
\* the model, the set an optimizer obtains and updates.
C7_RelIsParameter ==
    tpc # "new" =>
        \A i \in 1..NumLayers : [layer |-> i, path |-> RelPath] \in Parameters(model)

\* the list holds one entry per block, of shape (batch, seq_len, seq_len),
\* and entry i is what the attention unit of block i returned for the x
\* given to block i
WeightsPerBlock ==
    /\ Len(fwd.all_attention_weights) = NumLayers
    /\ \A i \in 1..NumLayers :
          /\ fwd.all_attention_weights[i].shape = <<inp.shape[1], inp.shape[2], inp.shape[2]>>
          /\ fwd.all_attention_weights[i] =
                 AttentionHead_forward(model.encoder_layers[i].attention, i, model.val,
                     fwd.layer_inputs[i], fwd.layer_inputs[i], fwd.layer_inputs[i]).weights
          /\ \A b \in 1..inp.shape[1] : fwd.all_attention_weights[i].at[b].op = "softmax"

\* C8 (as claimed): forward returns predictions of shape (batch,) and the
\* per-block list of attention weights.
C8_PredictionsFlat ==
    TReturned => fwd.output.shape = <<inp.shape[1]>> /\ WeightsPerBlock

\* C8 (amended): whenever forward returns, the predictions have shape
\* (batch, 1) and the list holds exactly num_layers attention-weight matrices
\* of shape (batch, seq_len, seq_len), entry i being the weights of block i.
C8_Predictions ==
    TReturned => fwd.output.shape = <<inp.shape[1], 1>> /\ WeightsPerBlock

\* a returned pass over a batch of two series of length two through two blocks
C8_Witness == TReturned /\ NumLayers >= 2 /\ inp.shape[1] >= 2 /\ inp.shape[2] >= 2

(* --------------- claims: permutations of the sequence axis ------------- *)
\* the permutations of 1..n, each a sequence of the indices
Perms(n) == {p \in [1..n -> 1..n] : \A i, j \in 1..n : p[i] = p[j] => i = j}
\* the rows (axis 1) of t in the order p, and the columns (axis 2) in the order p
PermuteRows(t, p) == [b \in 1..Size0(t) |-> [i \in 1..Len(p) |-> t[b][p[i]]]]
PermuteCols(t, p) ==
    [b \in 1..Size0(t) |-> [i \in 1..Size1(t) |-> [j \in 1..Len(p) |-> t[b][i][p[j]]]]]

\* a call without mask that returned, on a unit that adds no bias, with
\* sequence lengths within the bound on which all permutations are enumerated
NoBiasCall ==
    /\ ReturnedOk /\ unit.other_positional_encodings_present
    /\ Lq <= MaxSeq /\ Size1(args.key) <= MaxSeq /\ Size1(args.value) = Size1(args.key)

\* C11: with no bias and no mask, permuting key and value along the sequence
\* axis by one permutation leaves the output unchanged (and permutes the
\* columns of the weights), and permuting the rows of query permutes the
\* rows of the output and of the weights in the same way.
C11_PermutationEquivariant ==
    NoBiasCall =>
        /\ \A p \in Perms(Size1(args.key)) :
              LET r == SDPA_forward(unit, args.query, PermuteRows(args.key, p),
                                    PermuteRows(args.value, p))
              IN /\ r.raised = ""
                 /\ r.output = result.output
                 /\ r.weights = PermuteCols(result.weights, p)
        /\ \A p \in Perms(Lq) :
              LET r == SDPA_forward(unit, PermuteRows(args.query, p), args.key, args.value)
              IN /\ r.raised = ""
                 /\ r.output = PermuteRows(result.output, p)
                 /\ r.weights = PermuteRows(result.weights, p)

\* such a call in which the two keys, the two values and the two queries differ
\* and the weights of a row are not uniform
C11_Witness ==
    /\ NoBiasCall
    /\ Lq >= 2 /\ Size1(args.key) >= 2
    /\ args.key[1][1] # args.key[1][2] /\ args.value[1][1] # args.value[1][2]
    /\ args.query[1][1] # args.query[1][2]
    /\ result.weights[1][1][1] # result.weights[1][1][2]
    /\ result.output[1][1] # result.output[1][2]

\* a unit that adds its bias, of length two or more, whose bias ranks the key
\* positions of some query position differently
BiasRanksPositions(self) ==
    /\ ~self.other_positional_encodings_present /\ self.seq_len >= 2
    /\ \E i, j \in 1..self.seq_len : self.rel_layer[1][i][1] # self.rel_layer[1][i][j]

\* C12: with the relative bias active the unit is not permutation-equivariant:
\* for every constructed unit whose bias is not constant along the key axis
\* there are a query, a key, a value and a permutation of the sequence axis
\* such that permuting key and value together changes the output.
C12_BiasBreaksEquivariance ==
    (pc = "ready" /\ unit.d_k \in FeatDims /\ BiasRanksPositions(unit)) =>
        \E D \in FeatDims, p \in Perms(unit.seq_len) :
            LET query == Pattern(1, unit.seq_len, D, 0)
                key   == Pattern(1, unit.seq_len, D, 1)
                value == Pattern(1, unit.seq_len, D, 2)
                r0 == SDPA_forward(unit, query, key, value)
                r1 == SDPA_forward(unit, query, PermuteRows(key, p), PermuteRows(value, p))
            IN r0.raised = "" /\ r1.raised = "" /\ r1.output # r0.output

\* a call that returned on such a unit, the output of which changes when key
\* and value are permuted together
C12_Witness ==
    /\ ReturnedOk /\ BiasRanksPositions(unit) /\ Lq = unit.seq_len /\ Lq <= MaxSeq
    /\ Size1(args.key) = Lq
    /\ \E p \in Perms(Lq) :
          LET r1 == SDPA_forward(unit, args.query, PermuteRows(args.key, p),
                                 PermuteRows(args.value, p))
          IN r1.raised = "" /\ r1.output # result.output

(* ------------------- claims: the encoder block ------------------------- *)
\* what block i returned as its output, for batch element b: the x given to
\* block i + 1, and for the last block the operand of x[:, -1]
BlockOutputAt(i, b) ==
    IF i < NumLayers THEN fwd.layer_inputs[i + 1].at[b]
    ELSE fwd.output.at[b].args[3].args[1]

\* the stored tensor of the model named path in block i (block 0: the model itself)
Param(i, path) == Stored(path, i, model.val[[layer |-> i, path |-> path]])
LN(i, name, x) == T("layer_norm", 0, <<Param(i, name \o ".weight"), Param(i, name \o ".bias"), x>>)
Lin(i, name, x) == T("linear", 0, <<Param(i, name \o ".weight"), Param(i, name \o ".bias"), x>>)
\* the n-th dropout of the pass: a random mask in training mode, nothing otherwise
Drop(n, x) == IF model.training THEN T("dropout", n, <<x>>) ELSE x

\* what the attention head of block i returns when called with (x, x, x), x
\* being the input of block i
HeadOnInput(i) ==
    AttentionHead_forward(model.encoder_layers[i].attention, i, model.val,
                          fwd.layer_inputs[i], fwd.layer_inputs[i], fwd.layer_inputs[i])

\* C13: every block calls its attention head with query = key = value = x,
\* computes x' = LayerNorm1(x + Dropout(attention_output)), feeds x' to the
\* feed-forward sublayer and returns LayerNorm2(x' + Dropout(ffn(x'))), together
\* with the weights of the head.
C13_BlockStructure ==
    TReturned =>
        \A i \in 1..NumLayers : \A b \in 1..inp.shape[1] :
            LET x   == fwd.layer_inputs[i].at[b]
                x1  == LN(i, "norm1", T("add", 0, <<x, Drop(2 * i - 1, HeadOnInput(i).output.at[b])>>))
                ffn == Lin(i, "ffn.2", T("relu", 0, <<Lin(i, "ffn.0", x1)>>))
            IN /\ BlockOutputAt(i, b) = LN(i, "norm2", T("add", 0, <<x1, Drop(2 * i, ffn)>>))
               /\ fwd.all_attention_weights[i] = HeadOnInput(i).weights

\* a returned pass in training mode (dropout active) through two blocks
C13_Witness ==
    /\ TReturned /\ model.training /\ NumLayers >= 2
    /\ BlockOutputAt(2, 1).args[3].args[2].op = "dropout"

(* ------------------- claims: evaluation mode --------------------------- *)
\* a returned pass of a model in evaluation mode
EvalReturned == TReturned /\ ~model.training

\* C14: a forward pass in evaluation mode is pure: the model (its parameters,
\* buffers and rel_layer tensors) is what it was at the first evaluation call,
\* neither residual branch of any block is passed through a dropout mask, and
\* a call on the input of the first evaluation call, whatever calls were made
\* in between, returns what that call returned.
C14_EvalPure ==
    EvalReturned =>
        /\ first_call # NoCall /\ first_call.model = model
        /\ inp = first_call.inp => fwd = first_call.fwd
        /\ \A i \in 1..NumLayers : \A b \in 1..inp.shape[1] :
              LET sum2 == BlockOutputAt(i, b).args[3]
                  sum1 == sum2.args[1].args[3]
              IN /\ sum2.op = "add" /\ sum2.args[2].op = "linear"
                 /\ sum1.op = "add" /\ sum1.args[2].op = "linear"

\* the input of the first evaluation call is given again after another input
C14_Witness ==
    /\ EvalReturned /\ NumLayers >= 2
    /\ first_call.followed /\ inp = first_call.inp
    /\ inp.shape[1] >= 2 /\ inp.shape[2] >= 2

(* ------------------- claims: the regression head ----------------------- *)
\* what the last encoder block returned for the x it was given
LastBlockOutput ==
    TransformerEncoderBlock_forward(model.encoder_layers[NumLayers], NumLayers, model.val,
                                    model.training, fwd.layer_inputs[NumLayers]).output

\* C15: the prediction of batch element b is fc_out applied to position
\* seq_len - 1 of the last block's output for b, and to nothing else.
C15_LastPositionOnly ==
    TReturned =>
        \A b \in 1..inp.shape[1] :
            fwd.output.at[b] =
                Lin(0, "fc_out", T("select", inp.shape[2] - 1, <<LastBlockOutput.at[b]>>))

\* a returned pass without absolute encoding over series of two or more positions
C15_Witness ==
    /\ TReturned /\ ~Absolute /\ inp.shape[2] >= 2
    /\ fwd.output.at[1].args[3].n = inp.shape[2] - 1

(* ------------------- claims: one bias per block ------------------------ *)
\* the rel_layer tensors the model holds
RelTensors == {a \in model.attrs : a.path = RelPath}
\* the model with the rel_layer of block i replaced by rel
WithRelAt(m, i, rel) ==
    [m EXCEPT !.encoder_layers[i].attention.scaled_dot_attention.rel_layer = rel]
\* the bias that block j added to its scores, for batch element b
BiasOperand(run, j, b) == run.all_attention_weights[j].at[b].args[1].args[2]

\* C20: a Transformer built without absolute encoding holds one rel_layer per
\* block, num_layers in all, each of shape (1, seq_len, seq_len); block j adds
\* its own rel_layer and no other, so replacing the rel_layer of block i leaves
\* the bias added by every other block, and everything computed before block
\* i, unchanged.
C20_BiasPerBlock ==
    (tpc # "new" /\ ~Absolute) =>
        /\ Cardinality(RelTensors) = NumLayers
        /\ \A i \in 1..NumLayers :
              /\ [layer |-> i, path |-> RelPath, kind |-> "Tensor"] \in model.attrs
              /\ Shape(Unit(i).rel_layer) = <<1, Unit(i).seq_len, Unit(i).seq_len>>
        /\ TReturned =>
              \A i \in 1..NumLayers : \A rel \in AltRels(Unit(i).seq_len) :
                  LET other == Transformer_forward(WithRelAt(model, i, rel), inp)
                  IN \A j \in 1..NumLayers : \A b \in 1..inp.shape[1] :
                        /\ BiasOperand(fwd, j, b) = Stored(RelPath, j, TensorId(Unit(j).rel_layer))
                        /\ j # i => BiasOperand(other, j, b) = BiasOperand(fwd, j, b)
                        /\ j < i => other.all_attention_weights[j] = fwd.all_attention_weights[j]
                        /\ (rel # Unit(i).rel_layer) => BiasOperand(other, i, b) # BiasOperand(fwd, i, b)

\* a returned pass through two blocks that hold different biases
C20_Witness ==
    /\ TReturned /\ ~Absolute /\ NumLayers >= 2 /\ inp.shape[2] >= 2
    /\ Unit(1).rel_layer # Unit(2).rel_layer
    /\ BiasOperand(fwd, 1, 1) # BiasOperand(fwd, 2, 1)

(* ------------------- claims: the dataset ------------------------------- *)
DBuilt == dpc = "built"
\* the value at Python index i of sample n, and the indices at which the
\* claimed jumps lie: first_jump, first_jump + val, ... up to seq_len
ValueAt(n, i) == dataset.data[n][i + 1]
JumpIndices(n) ==
    {i \in 0..dataset.seq_len :
        i >= dataset.locals[n].first_jump /\ (i - dataset.locals[n].first_jump) % val = 0}
Written(n) == {dataset.locals[n].jumps[k] : k \in 1..Len(dataset.locals[n].jumps)}

\* C16: in every generated series the first jump lies at an index in [0, val),
\* the values before it are exactly 0, the indices written after it are
\* exactly first_jump + k*val up to seq_len, and every other index holds 0.
C16_JumpGrid ==
    DBuilt =>
        \A n \in 1..Len(dataset.data) :
            /\ dataset.locals[n].first_jump \in 0..(val - 1)
            /\ \A i \in 0..(dataset.locals[n].first_jump - 1) : ValueAt(n, i) = 0
            /\ Written(n) = JumpIndices(n)
            /\ \A i \in 0..dataset.seq_len : i \notin JumpIndices(n) => ValueAt(n, i) = 0

\* a series with first jump at 2 and three or more jumps
C16_Witness ==
    /\ DBuilt /\ Len(dataset.data) >= 1
    /\ dataset.locals[1].first_jump = 2 /\ Len(dataset.locals[1].jumps) >= 3
    /\ ValueAt(1, 2) # 0 /\ ValueAt(1, 0) = 0

\* C17 (as claimed): along the successive jump indices of every series the
\* base increments strictly alternate between initial_jump and 0, the first
\* jump carrying initial_jump.
C17_Alternates ==
    DBuilt =>
        \A n \in 1..Len(dataset.data) :
            LET base == dataset.locals[n].base
            IN /\ base[1] = initial_jump
               /\ \A k \in 1..Len(base) : base[k] \in {0, initial_jump}
               /\ \A k \in 1..(Len(base) - 1) : base[k] # base[k + 1]

\* what the last call on the dataset was
GotItem == DBuilt /\ item.op = "getitem" /\ item.idx < num
GotLen == DBuilt /\ item.op = "len"

\* C18: every stored series has length seq_len + 1; dataset[idx], for idx in
\* 0..num_samples-1, returns the values at the indices 0..seq_len-1 as the
\* sequence and the value at index seq_len as the target; len(dataset) is
\* num_samples.
C18_SequenceAndTarget ==
    /\ DBuilt => /\ Len(dataset.data) = num
                 /\ \A n \in 1..num : Len(dataset.data[n]) = dataset.seq_len + 1
    /\ GotLen => item.len = num
    /\ GotItem =>
          /\ item.raised = ""
          /\ Len(item.sequence) = dataset.seq_len
          /\ \A i \in 0..(dataset.seq_len - 1) : item.sequence[i + 1] = ValueAt(item.idx + 1, i)
          /\ item.target = ValueAt(item.idx + 1, dataset.seq_len)

\* the second sample of a dataset of two has been fetched, its target a jump
C18_Witness ==
    /\ GotItem /\ num >= 2 /\ item.idx = 1
    /\ item.target # 0 /\ \E i \in 1..Len(item.sequence) : item.sequence[i] # 0
    /\ dataset.data[1] # dataset.data[2]

\* C19 (as claimed): for every sample the final index seq_len is one of the
\* jump indices, and the target returned is the value written by the final
\* jump of the series.
C19_TargetIsFinalJump ==
    GotItem =>
        LET jumps == dataset.locals[item.idx + 1].jumps
        IN /\ jumps[Len(jumps)] = dataset.seq_len
           /\ item.target = ValueAt(item.idx + 1, jumps[Len(jumps)])

(* ------------------------ claims: top_p_sampling ----------------------- *)
\* an iteration of top_p_sampling has run
TopPStepped == ppc \in {"loop", "returned"} /\ ps.i > 0

\* the length of the shortest prefix of the sorted tokens whose
\* probabilities sum to more than p
NucleusLen(cumulative_probs, p) ==
    CHOOSE k \in DOMAIN cumulative_probs :
        /\ Less(p, cumulative_probs[k])
        /\ \A j \in 1..(k - 1) : ~Less(p, cumulative_probs[j])

ToSet(s) == {s[k] : k \in DOMAIN s}

\* C21: at every generation step the candidate set of top_p_sampling is the
\* shortest prefix of the tokens sorted by descending probability whose
\* probabilities sum to more than p, and the sampled token is in that set.
C21_SmallestNucleus ==
    TopPStepped =>
        LET nucleus == SubSeq(ps.locals.sorted_indices, 1,
                              NucleusLen(ps.locals.cumulative_probs, ps.p))
        IN /\ ps.locals.candidates = nucleus
           /\ ps.next_token \in ToSet(nucleus)

\* C27: when no token has cumulative probability <= p (the most probable
\* token alone has probability greater than p), the candidate set is
\* exactly the single most probable token, and that token is appended.
C27_FallbackTopToken ==
    (TopPStepped /\ ps.locals.fallback) =>
        /\ Less(ps.p, ps.locals.cumulative_probs[1])
        /\ ps.locals.candidates = <<ps.locals.sorted_indices[1]>>
        /\ ps.next_token = ps.locals.sorted_indices[1]
        /\ ps.output[Len(ps.output)] = ps.locals.sorted_indices[1]

(* ----------------------- claims: greedy_sampling ----------------------- *)
\* the tokens greedy_sampling has appended to the prompt
GreedyAppended == SubSeq(gs.input_ids, Len(gs.prompt) + 1, Len(gs.input_ids))

GreedySafe ==
    /\ gpc # "new" =>
          /\ gs.i <= gs.max_length
          /\ SubSeq(gs.input_ids, 1, Len(gs.prompt)) = gs.prompt
          /\ Len(GreedyAppended) = gs.i
          /\ gs.i > 0 =>
                /\ GreedyAppended[gs.i] = gs.next_token
                /\ \A v \in Vocab :
                      LessEq(F_softmax(gs.logits)[v], F_softmax(gs.logits)[gs.next_token])
          /\ \A j \in 1..(gs.i - 1) : GreedyAppended[j] # eos_token_id
          /\ (gpc = "loop" /\ gs.i > 0) => GreedyAppended[gs.i] # eos_token_id
    /\ gpc = "returned" =>
          /\ gs.result = gs.input_ids
          /\ gs.max_length = 0 => gs.i = 0
          /\ gs.max_length > 0 => (1 <= gs.i /\ gs.i <= gs.max_length)

\* C26: greedy_sampling always terminates, after at most max_length
\* iterations; its result is the prompt, unchanged as a prefix, followed by
\* k tokens with 1 <= k <= max_length (0 when max_length is 0), each the
\* highest-probability token given the sequence so far; generation stops
\* right after the first EOS, so EOS can only be the last appended token.
C26_GreedyTerminates == []GreedySafe /\ ((gpc = "loop") ~> (gpc = "returned"))

\* returned on EOS before the loop was exhausted, from a prompt that holds EOS
C26_Witness ==
    /\ gpc = "returned"
    /\ gs.i = 1
    /\ gs.max_length = MaxLength
    /\ gs.next_token = eos_token_id
    /\ gs.prompt = <<1, 2>>
    /\ gs.result = <<1, 2, 2>>

(* ------------------------- claims: beam_search ------------------------- *)
\* an iteration of beam_search has run
BeamStepped == bpc \in {"loop", "returned"} /\ bs.i > 0

Front(s) == SubSeq(s, 1, Len(s) - 1)
Last(s) == s[Len(s)]

\* -log(q1) - ... - log(qn), as a score
RECURSIVE SumNegLog(_)
SumNegLog(probs) ==
    IF probs = <<>> THEN <<1, 1>>
    ELSE ScoreMinusLog(SumNegLog(Front(probs)), Last(probs))

\* the tokens by which the candidates extend the n-th sequence of the
\* previous beam
ExtensionTokens(n) ==
    {Last(c.seq) : c \in {d \in ToSet(bs.all_candidates) : Front(d.seq) = bs.previous[n].seq}}

\* tokens is a set of k most probable tokens of the distribution probs
IsTopSet(tokens, probs, k) ==
    /\ Cardinality(tokens) = k
    /\ \A v \in tokens : \A u \in Vocab \ tokens : LessEq(probs[u], probs[v])

Quantized ==
    (IF qpc \in {"W", "x", "out"} THEN {<<qs.W, qs.QW>>} ELSE {})
    \cup (IF qpc \in {"x", "out"} THEN {<<qs.x, qs.Qx>>} ELSE {})

\* no conversion of the quantization was undefined
Defined(Q) == \A k \in DOMAIN Q.rounded : ~IsNaN(Q.rounded[k])
\* the cast to int8 kept every rounded value
NoWrap(Q) == \A k \in DOMAIN Q.rounded : Q.rounded[k] = Float(Q.W_q.at[k])

MaxAbs(W) == MaxOf([k \in DOMAIN W.at |-> Abs(W.at[k])])

C28_Int16Exact ==
    (qpc = "out" /\ Defined(qs.QW) /\ Defined(qs.Qx)) => qs.out.out_q = qs.out.exact

(* ----------------------------- claims: LoRA ---------------------------- *)
\* the cells wrap, freeze and unfreeze have run
LoRADone == lpc = "done"

Trainable == {k \in DOMAIN lm.params : lm.params[k].requires_grad}

\* C24: after wrap-with-LoRA, freeze-all, unfreeze-LoRA the trainable
\* parameters are exactly the A and B matrices of the LoRA modules (every
\* original parameter, the wrapped layers' weights and the classifier
\* included, is frozen), and on the 12-layer BERT (hidden 768, intermediate
\* 3072, rank 8) they count 12 * (49152 + 61440) = 1,327,104.
C24_OnlyLoRATrainable ==
    LoRADone =>
        /\ Trainable = {k \in DOMAIN lm.params : lm.params[k].name \in {"A", "B"}}
        /\ \A k \in DOMAIN lm.params :
              (lm.params[k].inner = "original_layer" \/ lm.params[k].module = "classifier")
                  => ~lm.params[k].requires_grad
        /\ \A l \in 1..lm.config.num_hidden_layers : \A n \in DOMAIN LoRATargets :
              \A name \in {"A", "B"} :
                 \E k \in Trainable :
                    /\ lm.params[k].layer = l
                    /\ lm.params[k].module = LoRATargets[n]
                    /\ lm.params[k].name = name
        /\ Cardinality(Trainable) = 2 * Len(LoRATargets) * lm.config.num_hidden_layers
        /\ lm.config = BertBase =>
              /\ trainable_params(lm.params) = 12 * (49152 + 61440)
              /\ trainable_params(lm.params) = 1327104

\* the notebook's model after the three cells, with the counts it prints
C24_Witness ==
    /\ LoRADone
    /\ lm.config = BertBase
    /\ trainable_params(lm.params) = 1327104
    /\ all_param(lm.params) = 110810882

====
